---- MODULE Spec2Model ----
(***************************************************************************)
(* A model of the agent execution engine of tony:                          *)
(*   - the stream accumulator  (src/src/index.ts, consumeStream)           *)
(*   - the retrying transport  (src/src/openai.ts, createChatCompletion,   *)
(*                              src/src/index.ts, createAssistantMessage)  *)
(*   - the agent loop, the sub-task invoker and the task runner            *)
(*                             (src/src/index.ts, runAgentTask,            *)
(*                              invokeTaskFromAgent, runTask, run action)  *)
(* Each part has its own specification over its own variables; the other   *)
(* parts' variables rest at their initial values.                          *)
(***************************************************************************)
EXTENDS Integers, Sequences, FiniteSets, TLC

VARIABLES
    \* ---- consumeStream ----
    content,        \* let content = ""
    toolCalls,      \* const toolCalls: ToolCallAccumulator[]  (may hold holes)
    nChunks,        \* history: the number of chunks consumed so far
    message,        \* the returned AssistantMessage, NoMessage while streaming
    seen,           \* history: every tool-call delta consumed so far, in arrival order
    \* ---- createAssistantMessage / createChatCompletion ----
    rpc,            \* where the model turn stands: "request", "sleep", "stream", "returned", "thrown"
    attempt,        \* createChatCompletion: let attempt = 0
    streamAttempt,  \* createAssistantMessage: for (let attempt = 0; ...)
    aborted,        \* controller.signal.aborted
    delay,          \* the base delay of the last backoff, in ms
    thrown,         \* the error createAssistantMessage threw, NoError if none
    planned,        \* the transport's script: fail this many times, then succeed (Unplanned: any)
    sends,          \* history: transport attempts of the current createChatCompletion call
    totalSends,     \* history: transport attempts of the whole model turn
    fatal           \* history: the first non-transient failure, the attempts made by
                    \* then, and whether it was the first failure of the turn

streamVars == <<content, toolCalls, nChunks, message, seen>>
retryVars == <<rpc, attempt, streamAttempt, aborted, delay, thrown, planned, sends,
               totalSends, fatal>>

VARIABLES
    \* ---- the run action, runTask, runAgentTask, invokeTaskFromAgent ----
    tasksById,      \* context.tasksById: the loaded task declarations, by id
    stack,          \* the task runs in progress, outermost first (one frame per runTask call)
    runIndex,       \* the run action: the position in the task list (from 1)
    runState,       \* the process: "idle", "running", "done", "exited" (process.exit())
    exitCode,       \* process.exitCode
    cancelled,      \* the signal of `controller` has tripped (seen from the engine)
    fuel,           \* environment: how many more model turns of the current top-level
                    \* task may request tool calls or fail
    menu,           \* environment: which answers the model chooses from in this run
    modelOverride,  \* the run action: the value of -m/--model, Undefined without one
    defaultModel,   \* instructions.defaultModel, Undefined when the file has none
    toolModel       \* what the identifier TOOL_MODEL is bound to in the module of runTask

modelVars == <<modelOverride, defaultModel, toolModel>>

VARIABLES
    \* ---- the provider connections (mcp.ts) and their teardown ----
    isShuttingDown,   \* let isShuttingDown = false  (index.ts)
    clientCache,      \* const clientCache = new Map<string, Client>(): name -> connection
    transportCache,   \* const transportCache = new Map<string, StdioClientTransport>()
    connecting,       \* the getClient call in flight between transportCache.set and
                      \* clientCache.set, NoConnection if none
    conns,            \* history: how many connections have been made
    clientCloses,     \* history: per connection, the calls of client.close()
    transportCloses,  \* history: per connection, the calls of transport.close()
    teardown,         \* the two calls of shutdownMcpClients: by the signal handler and
                      \* by the run action's finally
    taskFailed        \* history: a top-level runTask threw

mcpVars == <<isShuttingDown, clientCache, transportCache, connecting, conns,
             clientCloses, transportCloses, teardown, taskFailed>>

VARIABLES
    \* ---- the loader (instructions.ts) ----
    rawTasks,         \* the tasks array of the parsed JSON text, each entry unchecked
    loaded            \* what parseInstructions gave: NotLoaded, the task list, or LoadError

loaderVars == <<rawTasks, loaded>>

VARIABLES
    \* ---- the editor (tui/app.tsx, tui/hooks/useInstructions.ts, useCommandMode.ts) ----
    state,            \* const [state, setState] = useState<InstructionsState>(...)
    trail,            \* history: every instructions value a mutation replaced and no
                      \* undo has restored since, newest first
    prior,            \* history: the InstructionsState before the last operation
    lastOp,           \* history: the last operation and, for a command, what the model
                      \* asked for and what executeCommand returned
    mode,             \* environment: "wide" (every operation) or "long" (one edit, repeated)
    editsLeft         \* environment: how many more operations the user performs

editorVars == <<state, trail, prior, lastOp, mode, editsLeft>>

engineVars == <<tasksById, stack, runIndex, runState, exitCode, cancelled, fuel, menu,
                modelVars, mcpVars, loaderVars, editorVars>>

vars == <<streamVars, retryVars, engineVars>>

(***************************************************************************)
(* JavaScript values that are not strings or numbers.                      *)
(***************************************************************************)
Undefined == "<undefined>"
Null == "<null>"

(***************************************************************************)
(*                         THE STREAM ACCUMULATOR                          *)
(***************************************************************************)

\* Bounds of the stream alphabet.
MaxIndex == 2
MaxDeltas == 3
MaxChunkDeltas == 2
MaxChunks == 2

\* A JavaScript array slot that was never assigned (sparse array hole): reading
\* it yields undefined, and it counts in the array's length.
Hole == [type |-> "<hole>", name |-> Undefined, arguments |-> Undefined]

NoMessage == [role |-> "none", content |-> Null, tool_calls |-> <<>>]

\* delta.index when the delta carries none.
NoIndex == -1

\* Argument fragments. An empty fragment "" is falsy in JavaScript and is
\* skipped exactly as an absent one (Undefined) is.
Fragments == {"x", "y"}

\* One tool-call delta of a chunk; absent fields are Undefined (NoIndex).
Deltas ==
    [index : (0..MaxIndex) \cup {NoIndex},
     name : {Undefined, "f"},
     arguments : Fragments \cup {Undefined}]

\* delta.tool_calls of one chunk (<<>>: the chunk carries none).
DeltaLists == UNION {[1..n -> Deltas] : n \in 0..MaxChunkDeltas}

\* One chunk: choices[0].delta with its content and tool_calls.
Chunks == [content : {Undefined, "c"}, tool_calls : DeltaLists]

\* JavaScript truthiness of a string, null or undefined.
Truthy(v) == v # Undefined /\ v # Null /\ v # ""

\* !target[index] of a JavaScript array: true past the end and in holes.
IsEmptySlot(target, index) ==
    ~(index + 1 \in DOMAIN target) \/ target[index + 1] = Hole

\* target[index] = slot: assigning past the end leaves holes before it.
ArraySet(target, index, slot) ==
    IF index + 1 \in DOMAIN target
    THEN [target EXCEPT ![index + 1] = slot]
    ELSE target \o [k \in 1..(index - Len(target)) |-> Hole] \o <<slot>>

\* The body of accumulateToolCalls' loop for one delta.
AccumulateDelta(target, delta) ==
    LET index == IF delta.index = NoIndex THEN Len(target) ELSE delta.index
        slot0 == IF IsEmptySlot(target, index)
                 THEN [type |-> "function", name |-> Undefined, arguments |-> Undefined]
                 ELSE target[index + 1]
        slot1 == IF Truthy(delta.name) THEN [slot0 EXCEPT !.name = delta.name] ELSE slot0
        slot2 == IF Truthy(delta.arguments)
                 THEN [slot1 EXCEPT !.arguments =
                          (IF slot1.arguments = Undefined THEN "" ELSE slot1.arguments)
                              \o delta.arguments]
                 ELSE slot1
    IN  ArraySet(target, index, slot2)

RECURSIVE accumulateToolCalls(_, _)
accumulateToolCalls(target, deltas) ==
    IF deltas = <<>> THEN target
    ELSE accumulateToolCalls(AccumulateDelta(target, Head(deltas)), Tail(deltas))

StreamInit ==
    /\ content = ""
    /\ toolCalls = <<>>
    /\ nChunks = 0
    /\ message = NoMessage
    /\ seen = <<>>

StreamIdle == StreamInit

\* One iteration of `for await (const chunk of stream)`.
ConsumeChunk ==
    /\ message = NoMessage
    /\ nChunks < MaxChunks
    /\ nChunks' = nChunks + 1
    /\ \E chunk \in Chunks :
        LET deltas == chunk.tool_calls
        IN  /\ Len(seen) + Len(deltas) <= MaxDeltas
            /\ content' = IF Truthy(chunk.content) THEN content \o chunk.content ELSE content
            /\ toolCalls' = accumulateToolCalls(toolCalls, deltas)
            /\ seen' = seen \o deltas
    /\ UNCHANGED message
    /\ UNCHANGED <<retryVars, engineVars>>

\* The stream ends: consumeStream builds and returns the message.
FinishStream ==
    /\ message = NoMessage
    /\ message' = [role |-> "assistant",
                   content |-> IF Len(content) > 0 THEN content ELSE Null,
                   tool_calls |-> toolCalls]
    /\ UNCHANGED <<content, toolCalls, nChunks, seen>>
    /\ UNCHANGED <<retryVars, engineVars>>

consumeStream == ConsumeChunk \/ FinishStream

(***************************************************************************)
(*                         THE RETRYING TRANSPORT                          *)
(***************************************************************************)

MAX_RETRIES == 8
RETRY_BASE_DELAY_MS == 500
MAX_STREAM_RETRIES == 2

\* error.status / error.statusCode when the error carries none.
NoStatus == -1

NoError == [name |-> "none", status |-> NoStatus, statusCode |-> NoStatus]

\* The transport's script when the environment is left free.
Unplanned == -1

\* How far past MAX_RETRIES the scripted failure counts go.
PlanSlack == 2

\* The error an aborted request raises (the signal of `controller` tripped).
AbortError == [name |-> "AbortError", status |-> NoStatus, statusCode |-> NoStatus]

\* The TypeError "undefined is not a function" thrown from ReadableStreamAsyncIterator.
StreamIteratorBug == [name |-> "StreamIteratorBug", status |-> NoStatus, statusCode |-> NoStatus]

\* A failure without an HTTP status (connection refused, a client-side validation error).
NetworkError == [name |-> "Error", status |-> NoStatus, statusCode |-> NoStatus]

HttpErrors ==
    {[name |-> "APIError", status |-> st, statusCode |-> NoStatus] : st \in {400, 404, 429, 500, 503}}
    \cup {[name |-> "APIError", status |-> NoStatus, statusCode |-> 503]}

\* The errors a request or a stream can raise while the signal has not tripped.
Errors == HttpErrors \cup {NetworkError, StreamIteratorBug}

getErrorStatus(error) ==
    IF error.status # NoStatus THEN error.status ELSE error.statusCode

\* Mutant: HTTP 429 is no longer classified as transient.
shouldRetry_only5xx(error) ==
    LET status == getErrorStatus(error)
    IN  status # NoStatus /\ status >= 500

\* Mutant: every HTTP error status is retried.
shouldRetry_any4xx(error) ==
    LET status == getErrorStatus(error)
    IN  status # NoStatus /\ status >= 400

shouldRetry(error) ==
    LET status == getErrorStatus(error)
    IN  status = 429 \/ (status # NoStatus /\ status >= 500)

\* Mutant: the attempt bound is off by one (>= for >).
GiveUp_early(att, error) ==
    LET status == getErrorStatus(error)
    IN  att >= MAX_RETRIES \/ ~(status = 429 \/ (status # NoStatus /\ status >= 500))

\* createChatCompletion's test after a failure: give up, or back off and retry.
GiveUp(att, error) == att > MAX_RETRIES \/ ~shouldRetry(error)

isStreamIteratorBug(error) == error.name = "StreamIteratorBug"

\* Mutant: the stream retry bound is off by one (<= for <).
RetryStream_more(error, att) == error.name = "StreamIteratorBug" /\ att <= MAX_STREAM_RETRIES

\* createAssistantMessage's test in its catch block.
RetryStream(error, att) == isStreamIteratorBug(error) /\ att < MAX_STREAM_RETRIES

RECURSIVE Pow2(_)
Pow2(n) == IF n = 0 THEN 1 ELSE 2 * Pow2(n - 1)

baseDelay(att) == RETRY_BASE_DELAY_MS * Pow2(att - 1)

\* A failure outside the retry policy: no 429/5xx status and not the iterator defect.
NonTransient(error) ==
    /\ ~isStreamIteratorBug(error)
    /\ getErrorStatus(error) # 429
    /\ ~(getErrorStatus(error) >= 500)

NoFatal == [error |-> NoError, sends |-> 0, first |-> FALSE]

RetryInit ==
    /\ rpc = "request"
    /\ attempt = 0
    /\ streamAttempt = 0
    /\ aborted = FALSE
    /\ delay = 0
    /\ thrown = NoError
    /\ planned \in {Unplanned} \cup (0..(MAX_RETRIES + PlanSlack))
    /\ sends = 0
    /\ totalSends = 0
    /\ fatal = NoFatal

RetryIdle ==
    /\ rpc = "idle"
    /\ attempt = 0
    /\ streamAttempt = 0
    /\ aborted = FALSE
    /\ delay = 0
    /\ thrown = NoError
    /\ planned = Unplanned
    /\ sends = 0
    /\ totalSends = 0
    /\ fatal = NoFatal

\* The catch block of createAssistantMessage, reached by an error from
\* createChatCompletion or from consumeStream.
AssistantCatch(error) ==
    IF RetryStream(error, streamAttempt)
    THEN /\ streamAttempt' = streamAttempt + 1
         /\ rpc' = "request"
         /\ attempt' = 0
         /\ sends' = 0
         /\ thrown' = thrown
    ELSE /\ rpc' = "thrown"
         /\ thrown' = error
         /\ UNCHANGED <<streamAttempt>>
         /\ attempt' = attempt + (IF rpc = "request" THEN 1 ELSE 0)
         /\ sends' = sends + (IF rpc = "request" THEN 1 ELSE 0)

NoteFatal(error) ==
    fatal' = IF fatal = NoFatal /\ NonTransient(error)
             THEN [error |-> error, sends |-> totalSends',
                   first |-> (attempt = 0 /\ streamAttempt = 0)]
             ELSE fatal

\* The errors the transport may raise on the next attempt.
TransportErrors ==
    IF aborted THEN {AbortError}
    ELSE IF planned = Unplanned THEN Errors
    ELSE IF sends < planned THEN {e \in HttpErrors : ~NonTransient(e)}
    ELSE {}

\* openai.chat.completions.create resolves with a stream.
TransportSucceeds ==
    /\ rpc = "request"
    /\ ~aborted
    /\ planned = Unplanned \/ sends >= planned
    /\ rpc' = "stream"
    /\ sends' = sends + 1
    /\ totalSends' = totalSends + 1
    /\ UNCHANGED <<attempt, streamAttempt, aborted, delay, thrown, planned, fatal>>
    /\ UNCHANGED <<streamVars, engineVars>>

\* openai.chat.completions.create rejects: createChatCompletion's catch block,
\* and createAssistantMessage's when the error is rethrown.
TransportFails ==
    /\ rpc = "request"
    /\ \E error \in TransportErrors :
        /\ totalSends' = totalSends + 1
        /\ NoteFatal(error)
        /\ IF GiveUp(attempt + 1, error)
           THEN /\ AssistantCatch(error)
                /\ UNCHANGED delay
           ELSE /\ attempt' = attempt + 1
                /\ sends' = sends + 1
                /\ delay' = baseDelay(attempt + 1)
                /\ rpc' = "sleep"
                /\ UNCHANGED <<streamAttempt, thrown>>
    /\ UNCHANGED <<aborted, planned>>
    /\ UNCHANGED <<streamVars, engineVars>>

\* await sleep(delay) resolves.
BackoffElapsed ==
    /\ rpc = "sleep"
    /\ rpc' = "request"
    /\ UNCHANGED <<attempt, streamAttempt, aborted, delay, thrown, planned, sends,
                   totalSends, fatal>>
    /\ UNCHANGED <<streamVars, engineVars>>

\* consumeStream returns the message (a failing appendStats is only logged).
StreamReturns ==
    /\ rpc = "stream"
    /\ rpc' = "returned"
    /\ UNCHANGED <<attempt, streamAttempt, aborted, delay, thrown, planned, sends,
                   totalSends, fatal>>
    /\ UNCHANGED <<streamVars, engineVars>>

\* The stream iterator throws while consumeStream reads it.
StreamThrows ==
    /\ rpc = "stream"
    /\ planned = Unplanned
    /\ \E error \in (IF aborted THEN {AbortError} ELSE {NetworkError, StreamIteratorBug}) :
        /\ AssistantCatch(error)
        /\ UNCHANGED totalSends
        /\ NoteFatal(error)
    /\ UNCHANGED <<aborted, delay, planned>>
    /\ UNCHANGED <<streamVars, engineVars>>

\* process.on("SIGINT", () => controller.abort())
Interrupt ==
    /\ rpc \in {"request", "sleep", "stream"}
    /\ planned = Unplanned
    /\ ~aborted
    /\ aborted' = TRUE
    /\ UNCHANGED <<rpc, attempt, streamAttempt, delay, thrown, planned, sends, totalSends,
                   fatal>>
    /\ UNCHANGED <<streamVars, engineVars>>

createChatCompletion == TransportSucceeds \/ TransportFails \/ BackoffElapsed

createAssistantMessage == createChatCompletion \/ StreamReturns \/ StreamThrows

RetryNext == createAssistantMessage \/ Interrupt

(***************************************************************************)
(*        THE TASK RUNNER, THE AGENT LOOP AND THE SUB-TASK INVOKER         *)
(***************************************************************************)

MAX_AGENT_ITERATIONS == 10
MAX_REPEATED_ASSISTANT_MESSAGES == 2
MAX_TASK_CHAIN_DEPTH == 3
MAX_REPEATED_TOOL_CALLS == 2

\* How many model turns of one top-level task may request tool calls or fail,
\* when the model chooses among all answers and when it only delegates.
FuelInit == 1
ChainFuel == 4

\* How many tool-calling turns beyond MAX_AGENT_ITERATIONS a model that never stops
\* asking would still ask for.
LoopSlack == 1

\* ---- task declarations (instructions.json, already validated) ----

Entry(role, text) == [role |-> role, content |-> text]

AgentTask(id, context, history, input, outcome, tool, mcpTools, mcpServers) ==
    [id |-> id, type |-> "agent", model |-> Undefined,
     prompt |-> Undefined, description |-> Undefined,
     memory |-> [context |-> context, history |-> history],
     input |-> input, outcome |-> outcome, tool |-> tool,
     mcpTools |-> mcpTools, mcpServers |-> mcpServers]

\* A chat task's optional memory is left out here: an absent memory and an empty
\* one merge and render identically.
ChatTask(id, prompt, description) ==
    [id |-> id, type |-> "chat", model |-> Undefined,
     prompt |-> prompt, description |-> description,
     memory |-> [context |-> <<>>, history |-> <<>>],
     input |-> Undefined, outcome |-> Undefined, tool |-> Undefined,
     mcpTools |-> <<>>, mcpServers |-> <<>>]

\* instructions.tasks, in declaration order.
Instructions ==
    << AgentTask("A", <<"c">>, <<>>, "go", Undefined, Undefined, <<>>, <<>>),
       AgentTask("B", <<>>, <<Entry("user", "u")>>, Undefined, "win", "fetchFoo", <<>>, <<>>),
       AgentTask("C", <<"k">>, <<Entry("assistant", "h")>>, "in", "win", Undefined,
                 <<"srv", "gone">>, <<"srv">>),
       AgentTask("D", <<>>, <<Entry("assistant", "h")>>, Undefined, " ", Undefined, <<>>, <<>>),
       AgentTask("E", <<>>, <<>>, "", Undefined, Undefined, <<>>, <<>>),
       ChatTask("Q", "p", "d") >>

TaskIds == {Instructions[k].id : k \in 1..Len(Instructions)}

\* new Map(instructions.tasks.map((task) => [task.id, task])): the last task of an id wins.
BuildTasksById ==
    [id \in TaskIds |->
        Instructions[CHOOSE k \in 1..Len(Instructions) :
                        /\ Instructions[k].id = id
                        /\ \A j \in 1..Len(Instructions) : Instructions[j].id = id => j <= k]]

\* ---- Memory ----

createMemory(config) == [context |-> config.context, history |-> config.history]

\* Mutant: the user turn replaces the history.
appendUser_reset(memory, text) ==
    [memory EXCEPT !.history = <<Entry("user", text)>>]

appendUser(memory, text) ==
    [memory EXCEPT !.history = Append(@, Entry("user", text))]

\* Mutant: the assistant's content goes to the front of the history.
appendAssistant_front(memory, text) ==
    [memory EXCEPT !.history = <<Entry("assistant", text)>> \o @]

\* Mutant: the assistant's content is not kept.
appendAssistant_drop(memory, text) == memory

appendAssistant(memory, text) ==
    [memory EXCEPT !.history = Append(@, Entry("assistant", text))]

\* getLastEntry()?.content ?? null
LastEntryContent(history) ==
    IF history = <<>> THEN Null ELSE history[Len(history)].content

\* Mutant: any history counts as ending with a user entry.
endsWithUserMessage_any(history) == history # <<>>

endsWithUserMessage(history) ==
    history # <<>> /\ history[Len(history)].role = "user"

mergeMemoryConfigs(base, inherited) ==
    [context |-> base.context \o inherited.context,
     history |-> base.history \o inherited.history]

applyInheritedMemory(task, inherited) ==
    [task EXCEPT !.memory = mergeMemoryConfigs(task.memory, inherited)]

\* ---- messages of a request ----

NoResult == [error |-> Undefined, ok |-> FALSE, taskId |-> Undefined,
             lastMessage |-> Undefined, cause |-> Undefined]

Msg(role, text) == [role |-> role, content |-> text, result |-> NoResult, calls |-> <<>>]

ToolMsg(result) == [role |-> "tool", content |-> "", result |-> result, calls |-> <<>>]

AssistantMsg(m) == [role |-> "assistant", content |-> m.content, result |-> NoResult,
                    calls |-> m.tool_calls]

buildMessages(memory) ==
    [k \in 1..Len(memory.context) |-> Msg("system", memory.context[k])]
    \o [k \in 1..Len(memory.history) |->
            Msg(memory.history[k].role, memory.history[k].content)]

\* content.trim().length === 0, over the contents that occur.
IsBlank(text) == text \in {"", " "}

isLowValueAssistantMessage(text) == ~Truthy(text) \/ IsBlank(text)

\* ---- tool sets ----

ToolDef(name, server) == [name |-> name, mcpServer |-> server]

\* What each remote tool provider lists (listMcpTools).
McpCatalog(server) ==
    IF server = "srv" THEN <<"fetchFoo", "search">>
    ELSE IF server = "alt" THEN <<"search", "invoke_task">>
    ELSE <<>>

HasTool(defs, name) == \E k \in 1..Len(defs) : defs[k].name = name

RECURSIVE AddServerTools(_, _, _)
AddServerTools(defs, server, names) ==
    IF names = <<>> THEN defs
    ELSE AddServerTools(
             IF HasTool(defs, Head(names)) THEN defs
             ELSE Append(defs, ToolDef(Head(names), server)),
             server, Tail(names))

RECURSIVE AddServers(_, _, _)
AddServers(defs, servers, configured) ==
    IF servers = <<>> THEN defs
    ELSE AddServers(
             IF \E k \in 1..Len(configured) : configured[k] = Head(servers)
             THEN AddServerTools(defs, Head(servers), McpCatalog(Head(servers)))
             ELSE defs,
             Tail(servers), configured)

resolveTaskTools(task) ==
    AddServers(IF task.tool # Undefined THEN <<ToolDef(task.tool, Undefined)>> ELSE <<>>,
               task.mcpTools, task.mcpServers)

toolDefinitions_always(external) == Append(external, ToolDef("invoke_task", Undefined))

\* runAgentTask: the built-in invoke_task is added unless a tool of that name is there.
toolDefinitions(external) ==
    IF HasTool(external, "invoke_task") THEN external
    ELSE Append(external, ToolDef("invoke_task", Undefined))

\* ---- tool calls and their argument texts ----

ToolCall(name, arguments) == [name |-> name, arguments |-> arguments]

Targets == TaskIds \cup {"zz"}

BadJson == "{oops"
EmptyArgs == "{}"
FooArgs == "{\"n\":1}"
TaskIdArgs(t) == "{\"taskId\":\"" \o t \o "\"}"
IdArgs(t) == "{\"id\":\"" \o t \o "\"}"
TaskIdInputArgs(t, in) == "{\"taskId\":\"" \o t \o "\",\"input\":\"" \o in \o "\"}"

Overrides == {"", "o"}

\* JSON.parse of an argument text, over the texts that occur: the fields the
\* callers read, or valid = FALSE when the text is not JSON.
ParsedArgs(valid, taskId, id, input) ==
    [valid |-> valid, taskId |-> taskId, id |-> id, input |-> input]

JsonParse(text) ==
    IF \E t \in Targets : text = TaskIdArgs(t)
    THEN ParsedArgs(TRUE, CHOOSE t \in Targets : text = TaskIdArgs(t), Undefined, Undefined)
    ELSE IF \E t \in Targets : text = IdArgs(t)
    THEN ParsedArgs(TRUE, Undefined, CHOOSE t \in Targets : text = IdArgs(t), Undefined)
    ELSE IF \E t \in Targets, in \in Overrides : text = TaskIdInputArgs(t, in)
    THEN LET p == CHOOSE p \in Targets \X Overrides : text = TaskIdInputArgs(p[1], p[2])
         IN  ParsedArgs(TRUE, p[1], Undefined, p[2])
    ELSE IF text \in {EmptyArgs, FooArgs}
    THEN ParsedArgs(TRUE, Undefined, Undefined, Undefined)
    ELSE ParsedArgs(FALSE, Undefined, Undefined, Undefined)

ErrorResult(msg) == [NoResult EXCEPT !.error = msg]

\* Mutant: the chain is not consulted.
InvokeCheck_noCycle(call, depth, chain, known) ==
    LET args == JsonParse(call.arguments)
        taskId == IF args.taskId # Undefined THEN args.taskId ELSE args.id
    IN  IF ~args.valid THEN "Invalid JSON arguments for tool invoke_task"
        ELSE IF ~Truthy(taskId) THEN "invoke_task requires taskId"
        ELSE IF depth >= MAX_TASK_CHAIN_DEPTH THEN "Max task chain depth reached"
        ELSE IF taskId \notin known THEN "Task not found"
        ELSE "run"

\* Mutant: the depth limit is off by one.
InvokeCheck_deeper(call, depth, chain, known) ==
    LET args == JsonParse(call.arguments)
        taskId == IF args.taskId # Undefined THEN args.taskId ELSE args.id
    IN  IF ~args.valid THEN "Invalid JSON arguments for tool invoke_task"
        ELSE IF ~Truthy(taskId) THEN "invoke_task requires taskId"
        ELSE IF depth > MAX_TASK_CHAIN_DEPTH THEN "Max task chain depth reached"
        ELSE IF taskId \in chain THEN "Cycle detected"
        ELSE IF taskId \notin known THEN "Task not found"
        ELSE "run"

\* Mutant: the chain is consulted before the depth.
InvokeCheck_cycleFirst(call, depth, chain, known) ==
    LET args == JsonParse(call.arguments)
        taskId == IF args.taskId # Undefined THEN args.taskId ELSE args.id
    IN  IF ~args.valid THEN "Invalid JSON arguments for tool invoke_task"
        ELSE IF ~Truthy(taskId) THEN "invoke_task requires taskId"
        ELSE IF taskId \in chain THEN "Cycle detected"
        ELSE IF depth >= MAX_TASK_CHAIN_DEPTH THEN "Max task chain depth reached"
        ELSE IF taskId \notin known THEN "Task not found"
        ELSE "run"

\* The precondition checks of invokeTaskFromAgent, in the order of the code:
\* the error it returns, or "run" when the target is to be run.
InvokeCheck(call, depth, chain, known) ==
    LET args == JsonParse(call.arguments)
        taskId == IF args.taskId # Undefined THEN args.taskId ELSE args.id
    IN  IF ~args.valid THEN "Invalid JSON arguments for tool invoke_task"
        ELSE IF ~Truthy(taskId) THEN "invoke_task requires taskId"
        ELSE IF depth >= MAX_TASK_CHAIN_DEPTH THEN "Max task chain depth reached"
        ELSE IF taskId \in chain THEN "Cycle detected"
        ELSE IF taskId \notin known THEN "Task not found"
        ELSE "run"

InvokeTarget(call) ==
    LET args == JsonParse(call.arguments)
    IN  IF args.taskId # Undefined THEN args.taskId ELSE args.id

\* The task invokeTaskFromAgent runs: the target, with the input override applied to a copy.
taskToRun(call, nextTask) ==
    LET inputOverride == JsonParse(call.arguments).input
    IN  IF Truthy(inputOverride)
        THEN IF nextTask.type = "agent"
             THEN [nextTask EXCEPT !.input = inputOverride]
             ELSE [nextTask EXCEPT !.description = inputOverride]
        ELSE nextTask

\* What callMcpTool may return: the provider's result, or {error} when the call failed.
McpResults == {[NoResult EXCEPT !.ok = TRUE], ErrorResult("MCP tool call failed")}

\* The possible outputs of executeTool for one call, given the task's external tools.
executeTool(call, tools, mcpServers) ==
    IF ~JsonParse(call.arguments).valid
    THEN {ErrorResult("Invalid JSON arguments for tool")}
    ELSE IF ~HasTool(tools, call.name)
    THEN {ErrorResult("Unknown tool name")}
    ELSE LET def == tools[CHOOSE k \in 1..Len(tools) :
                            /\ tools[k].name = call.name
                            /\ \A j \in 1..(k - 1) : tools[j].name # call.name]
         IN  IF def.mcpServer # Undefined
             THEN IF \E k \in 1..Len(mcpServers) : mcpServers[k] = def.mcpServer
                  THEN McpResults
                  ELSE {ErrorResult("MCP server not configured")}
             ELSE IF call.name = "fetchFoo"
             THEN {[NoResult EXCEPT !.ok = TRUE]}
             ELSE {ErrorResult("Unhandled tool")}

\* `${toolCall.function.name}:${toolCall.function.arguments}`
toolSignature(call) == call.name \o ":" \o call.arguments

\* ---- the call stack of runTask activations ----

\* What the model may answer in one turn: content (Null when the stream carried
\* none) and the tool calls (<<>> when it requested none).
Response(text, calls) == [content |-> text, tool_calls |-> calls]

FinalResponses == {Response(text, <<>>) : text \in {Null, "a", "b", " "}}

InvokeCalls ==
    {ToolCall("invoke_task", TaskIdArgs(t)) : t \in Targets}
    \cup {ToolCall("invoke_task", IdArgs("B")),
          ToolCall("invoke_task", TaskIdInputArgs("D", "o")),
          ToolCall("invoke_task", TaskIdInputArgs("E", "")),
          ToolCall("invoke_task", TaskIdInputArgs("Q", "o")),
          ToolCall("invoke_task", BadJson),
          ToolCall("invoke_task", EmptyArgs)}

ExternalCalls ==
    {ToolCall("fetchFoo", FooArgs), ToolCall("fetchFoo", BadJson),
     ToolCall("search", FooArgs), ToolCall("nope", EmptyArgs)}

CallLists ==
    {<<c>> : c \in InvokeCalls \cup ExternalCalls}
    \cup {<<ToolCall("fetchFoo", FooArgs), ToolCall("fetchFoo", FooArgs)>>,
          <<ToolCall("fetchFoo", FooArgs), ToolCall("fetchFoo", FooArgs),
            ToolCall("fetchFoo", FooArgs)>>,
          <<ToolCall("invoke_task", TaskIdArgs("B")), ToolCall("fetchFoo", FooArgs)>>,
          <<ToolCall("fetchFoo", FooArgs), ToolCall("fetchFoo", FooArgs),
            ToolCall("invoke_task", TaskIdArgs("zz")), ToolCall("fetchFoo", FooArgs)>>}

ToolResponses == {Response(text, calls) : text \in {Null, "a"}, calls \in CallLists}

\* A model that only delegates: every answer with tool calls says the same and is
\* one invoke_task that passes an input on.
ChainTargets == {"B", "C", "D", "Q"}

ChainResponses ==
    {Response("a", <<ToolCall("invoke_task", TaskIdInputArgs(t, "o"))>>) : t \in ChainTargets}

\* A delegating model's last delegation may name a task that does not exist.
StrayResponses ==
    {Response("a", <<ToolCall("invoke_task", TaskIdInputArgs("zz", "o"))>>)}

\* A model that never finishes by itself: no content, and one invoke_task that is refused.
LoopResponses == {Response(Null, <<ToolCall("invoke_task", TaskIdArgs("zz"))>>)}

Menus == {"wide", "chain", "loop"}

Budget(m) ==
    IF m = "chain" THEN ChainFuel
    ELSE IF m = "loop" THEN MAX_AGENT_ITERATIONS + LoopSlack
    ELSE FuelInit

\* Whether a request may fail for a reason other than cancellation.
MayFail(m, left) == m = "wide" /\ left > 0

Responses(m, left) ==
    IF left = 0 THEN FinalResponses
    ELSE IF m = "chain"
    THEN {Response("a", <<>>)} \cup ChainResponses
         \cup IF left = 1 THEN StrayResponses ELSE {}
    ELSE IF m = "loop" THEN {Response("a", <<>>)} \cup LoopResponses
    ELSE FinalResponses \cup ToolResponses

\* listMcpTools failed: the provider could not be reached.
McpError == [name |-> "McpError", status |-> NoStatus, statusCode |-> NoStatus]

\* ---- the model of a task's requests ----

DEFAULT_MODEL == "liquid/lfm-2.5-1.2b-thinking:free"
TOOL_MODEL == "openai/gpt-4o-mini"

\* index.ts reads TOOL_MODEL without declaring or importing it; the one declaration
\* of the name is local to tui/hooks/useCommandMode.ts.  A build either binds the
\* name to that value or leaves it unbound, and reading it then throws.
Undeclared == "<undeclared>"
ReferenceError == [name |-> "ReferenceError", status |-> NoStatus, statusCode |-> NoStatus]

\* filterTasks: const model = instructions.defaultModel ?? DEFAULT_MODEL
filterTasksModel == IF defaultModel # Undefined THEN defaultModel ELSE DEFAULT_MODEL

\* the run action: taskContext.defaultModel = modelOverride ?? defaultModel
contextDefaultModel == IF modelOverride # Undefined THEN modelOverride ELSE filterTasksModel

\* runTask: task.type === "agent" && (task.mcpTools?.length || task.tool)
hasTools(task) ==
    task.type = "agent" /\ (Len(task.mcpTools) > 0 \/ Truthy(task.tool))

resolvedModel_plain(task, contextModel, binding) ==
    IF task.model # Undefined THEN task.model ELSE contextModel

\* runTask: model = task.model ?? context.defaultModel;
\*          resolvedModel = hasTools ? TOOL_MODEL : model
resolvedModel(task, contextModel, binding) ==
    IF hasTools(task) THEN binding
    ELSE IF task.model # Undefined THEN task.model ELSE contextModel

\* runTask up to the first model request of the task: the inherited memory is merged,
\* the task joins the chain, and runAgentTask builds memory, tools and messages and
\* seeds the user turn.  `listing` is whether the remote tool listing succeeded.
NewFrame(task, depth, chain, inherited, hasInherited, listing) ==
    LET resolvedTask == IF hasInherited THEN applyInheritedMemory(task, inherited) ELSE task
        memory == createMemory(resolvedTask.memory)
        listed == \E k \in 1..Len(task.mcpTools) :
                      \E j \in 1..Len(task.mcpServers) : task.mcpServers[j] = task.mcpTools[k]
        model == resolvedModel(task, contextDefaultModel, toolModel)
        unbound == model = Undeclared
        failed == resolvedTask.type = "agent" /\ listed /\ listing = "fail" /\ ~unbound
        noted == buildMessages(memory)
                 \o IF Truthy(resolvedTask.outcome) /\ ~IsBlank(resolvedTask.outcome)
                    THEN <<Msg("system", "Desired outcome: " \o resolvedTask.outcome)>>
                    ELSE <<>>
        seed == resolvedTask.type = "agent" /\ ~failed /\ ~unbound
                /\ ~endsWithUserMessage(memory.history) /\ Truthy(resolvedTask.input)
        nothing == resolvedTask.type = "agent" /\ ~failed /\ ~unbound
                   /\ ~endsWithUserMessage(memory.history) /\ ~Truthy(resolvedTask.input)
        chatMessages == [k \in 1..Len(memory.context) |-> Msg("system", memory.context[k])]
                        \o <<Msg("system", resolvedTask.prompt)>>
                        \o [k \in 1..Len(memory.history) |->
                                Msg(memory.history[k].role, memory.history[k].content)]
                        \o <<Msg("user", resolvedTask.description)>>
        messages == IF resolvedTask.type = "chat" THEN chatMessages
                    ELSE IF seed THEN Append(noted, Msg("user", resolvedTask.input))
                    ELSE noted
    IN  [task |-> resolvedTask,
         model |-> IF unbound THEN Undefined ELSE model,
         depth |-> depth,
         taskChain |-> chain \cup {task.id},
         start |-> memory,
         memory |-> IF seed THEN appendUser(memory, resolvedTask.input) ELSE memory,
         tools |-> IF resolvedTask.type = "agent" /\ ~failed /\ ~unbound
                   THEN resolveTaskTools(resolvedTask) ELSE <<>>,
         messages |-> messages,
         base |-> Len(messages),
         pc |-> IF resolvedTask.type = "chat" THEN "chat"
                ELSE IF failed \/ unbound THEN "threw"
                ELSE IF nothing THEN "returned"
                ELSE "model",
         i |-> 0,
         lastAssistantContent |-> Undefined,
         repeatedAssistantCount |-> 0,
         lastToolSignature |-> Undefined,
         repeatedToolCalls |-> 0,
         pending |-> <<>>,
         reason |-> IF nothing THEN "nothingToDo" ELSE "",
         thrown |-> IF unbound THEN ReferenceError
                    ELSE IF failed THEN McpError ELSE NoError,
         calls |-> 0,
         execs |-> 0]

Top == stack[Len(stack)]

SetTop(frame) == [stack EXCEPT ![Len(stack)] = frame]

Running == runState = "running"

Active == Running /\ stack # <<>>

Done(frame, why) == [frame EXCEPT !.pc = "returned", !.reason = why, !.pending = <<>>]

\* Mutant: the loop condition is off by one.
EndIteration_extra(frame) ==
    IF frame.i + 1 <= MAX_AGENT_ITERATIONS
    THEN [frame EXCEPT !.i = @ + 1, !.pc = "model", !.pending = <<>>]
    ELSE [frame EXCEPT !.i = @ + 1, !.pc = "returned", !.reason = "maxIterations",
                       !.pending = <<>>]

\* The end of one pass of the agent loop's body: i++ and the loop condition.
EndIteration(frame) ==
    IF frame.i + 1 < MAX_AGENT_ITERATIONS
    THEN [frame EXCEPT !.i = @ + 1, !.pc = "model", !.pending = <<>>]
    ELSE Done([frame EXCEPT !.i = @ + 1], "maxIterations")

\* After one tool call has been handled: the next call of the turn, or the next turn.
AfterCall(frame) ==
    IF Len(frame.pending) > 1
    THEN [frame EXCEPT !.pending = Tail(@), !.pc = "tools"]
    ELSE EndIteration(frame)

\* The agent loop from the assistant message of a turn to the first tool call.
AfterResponse(frame, m) ==
    LET appended == [frame EXCEPT
                        !.messages = Append(@, AssistantMsg(m)),
                        !.memory = IF Truthy(m.content) THEN appendAssistant(@, m.content) ELSE @,
                        !.calls = @ + 1]
        same == m.content = frame.lastAssistantContent
        counted == [appended EXCEPT
                        !.repeatedAssistantCount = IF same THEN @ + 1 ELSE 0,
                        !.lastAssistantContent =
                            IF same THEN @
                            ELSE IF m.content # Null THEN m.content ELSE @]
    IN  IF counted.repeatedAssistantCount >= MAX_REPEATED_ASSISTANT_MESSAGES
        THEN Done(counted, "repeated")
        ELSE IF m.tool_calls = <<>>
        THEN IF isLowValueAssistantMessage(m.content)
             THEN Done(counted, "lowValue") ELSE Done(counted, "complete")
        ELSE IF Len(toolDefinitions(frame.tools)) = 0
        THEN Done(counted, "noTools")
        ELSE [counted EXCEPT !.pc = "tools", !.pending = m.tool_calls]

\* ---- the loader ----

\* The longest tasks array a file carries.
MaxFileTasks == 2

\* A JSON value that is not a string, and an object that passes isAgentMemory.
NotAString == "<number>"
ValidMemory == "<memory>"

IsString(v) == v \notin {Undefined, Null, NotAString}

RawTasks ==
    [id : {"A", "B", NotAString}, type : {"chat", "agent"},
     memory : {Undefined, ValidMemory}, prompt : {Undefined, "p"},
     description : {"d"}]

RawTaskLists == UNION {[1..n -> RawTasks] : n \in 0..MaxFileTasks}

isAgentMemory(value) == value = ValidMemory

isChatTask(task) ==
    /\ IsString(task.id) /\ task.type = "chat"
    /\ IsString(task.prompt) /\ IsString(task.description)
    /\ (task.memory = Undefined \/ isAgentMemory(task.memory))

isAgentTask(task) ==
    IsString(task.id) /\ task.type = "agent" /\ isAgentMemory(task.memory)

isTask(task) == isChatTask(task) \/ isAgentTask(task)

NotLoaded == [status |-> "none", tasks |-> <<>>]
LoadError == [status |-> "error", tasks |-> <<>>]

\* parseInstructions: every entry of the tasks array must pass isTask.
parseInstructions(tasks) ==
    IF \A i \in 1..Len(tasks) : isTask(tasks[i])
    THEN [status |-> "ok", tasks |-> tasks]
    ELSE LoadError

\* new Map(tasks.map((task) => [task.id, task])): a later entry replaces an earlier one.
MapOfTasks(tasks) ==
    [id \in {tasks[k].id : k \in 1..Len(tasks)} |->
        tasks[CHOOSE k \in 1..Len(tasks) :
                /\ tasks[k].id = id
                /\ \A j \in 1..Len(tasks) : tasks[j].id = id => j <= k]]

LoaderIdle ==
    /\ rawTasks = <<>>
    /\ loaded = NotLoaded

\* ---- the editor: InstructionsState and its operations (useInstructions.ts) ----

MAX_UNDO == 50

\* How many operations the user performs when any operation may come next, how many
\* past MAX_UNDO when one edit is repeated, and how many around one command.
MaxEdits == 3
LongSlack == 2
CommandEdits == 2

\* The most tool calls the model asks for in one command.
MaxCalls == 2

\* Tasks are objects: functions from keys to values.  The keys the modelled edits
\* never touch (memory, prompt, description) are left out.
EditorTask(id, type) == [id |-> id, type |-> type]

StartInstructions ==
    [defaultModel |-> "m", tasks |-> <<EditorTask("A", "agent"), EditorTask("B", "chat")>>]

\* { ...base, ...override }
Spread(base, override) ==
    [key \in DOMAIN base \cup DOMAIN override |->
        IF key \in DOMAIN override THEN override[key] ELSE base[key]]

\* JSON.stringify of an object: a key whose value is undefined is not written.
Written(object) ==
    [key \in {k \in DOMAIN object : object[k] # Undefined} |-> object[key]]

\* JSON.stringify(instructions)
Stringify(instructions) ==
    [defaultModel |-> instructions.defaultModel,
     tasks |-> [k \in 1..Len(instructions.tasks) |-> Written(instructions.tasks[k])]]

createInstructionsState(instructions) ==
    [instructions |-> instructions,
     dirty |-> FALSE,
     undoStack |-> <<>>,
     savedSnapshot |-> Stringify(instructions)]

\* array.slice(0, n)
Slice(seq, n) == SubSeq(seq, 1, IF Len(seq) < n THEN Len(seq) ELSE n)

pushUndo_uncapped(st, next) ==
    [st EXCEPT !.instructions = next,
               !.undoStack = <<st.instructions>> \o st.undoStack,
               !.dirty = Stringify(next) # st.savedSnapshot]

pushUndo_stale(st, next) ==
    [st EXCEPT !.instructions = next,
               !.undoStack = Slice(<<st.instructions>> \o st.undoStack, MAX_UNDO),
               !.dirty = TRUE]

pushUndo(st, next) ==
    [st EXCEPT !.instructions = next,
               !.undoStack = Slice(<<st.instructions>> \o st.undoStack, MAX_UNDO),
               !.dirty = Stringify(next) # st.savedSnapshot]

updateTask(st, taskId, updates) ==
    pushUndo(st,
        [st.instructions EXCEPT !.tasks =
            [k \in 1..Len(@) |-> IF @[k].id = taskId THEN Spread(@[k], updates) ELSE @[k]]])

HasTask(instructions, taskId) ==
    \E k \in 1..Len(instructions.tasks) : instructions.tasks[k].id = taskId

\* addTask throws when the id is taken.
addTaskThrows(st, task) == HasTask(st.instructions, task.id)

addTask(st, task) ==
    pushUndo(st, [st.instructions EXCEPT !.tasks = Append(@, task)])

Without(tasks, taskId) ==
    LET Other(task) == task.id # taskId IN SelectSeq(tasks, Other)

deleteTask(st, taskId) ==
    pushUndo(st, [st.instructions EXCEPT !.tasks = Without(@, taskId)])

undo_keep(st) ==
    IF Len(st.undoStack) = 0 THEN st
    ELSE [st EXCEPT !.instructions = Head(st.undoStack),
                    !.dirty = Stringify(Head(st.undoStack)) # st.savedSnapshot]

undo(st) ==
    IF Len(st.undoStack) = 0 THEN st
    ELSE [st EXCEPT !.instructions = Head(st.undoStack),
                    !.undoStack = Tail(st.undoStack),
                    !.dirty = Stringify(Head(st.undoStack)) # st.savedSnapshot]

replaceInstructions(st, next) == pushUndo(st, next)

markSaved(st) ==
    [st EXCEPT !.dirty = FALSE, !.savedSnapshot = Stringify(st.instructions)]

\* ---- the editor: command mode (useCommandMode.ts) ----

\* A tool call of the model: its name, whether its arguments parse, args.id, and
\* args.task or args.updates when it is a plain object.
EditCall(name, valid, id, given, fields) ==
    [name |-> name, valid |-> valid, id |-> id, given |-> given, fields |-> fields]

NoFields == [id |-> Undefined]

EditCalls ==
    {EditCall("add_task", TRUE, Undefined, TRUE, EditorTask(id, "agent")) : id \in {"A", "C"}}
    \cup {EditCall("add_task", TRUE, "D", FALSE, NoFields)}
    \cup {EditCall("update_task", TRUE, id, TRUE, [model |-> "x"]) : id \in {"A", "B", "Z"}}
    \cup {EditCall("update_task", TRUE, "A", TRUE, [id |-> "B", model |-> "y"]),
          EditCall("update_task", FALSE, Undefined, FALSE, NoFields),
          EditCall("delete_task", TRUE, "B", FALSE, NoFields),
          EditCall("delete_task", TRUE, "Z", FALSE, NoFields),
          EditCall("get_task", TRUE, "A", FALSE, NoFields),
          EditCall("rename_task", TRUE, "A", FALSE, NoFields)}

EditCallLists == UNION {[1..n -> EditCalls] : n \in 0..MaxCalls}

\* What executeToolCalls and the apply functions give: the next instructions, or the
\* message of the error they throw.
Applied(instructions) == [error |-> Undefined, instructions |-> instructions]
Thrown(msg) == [error |-> msg, instructions |-> StartInstructions]

assertTaskShape(task) ==
    IF ~Truthy(task.id) THEN "Task must include a non-empty id"
    ELSE IF task.type \notin {"agent", "chat"} THEN "Task must have type agent or chat"
    ELSE Undefined

applyAddTask(instructions, rawTask) ==
    IF assertTaskShape(rawTask) # Undefined THEN Thrown(assertTaskShape(rawTask))
    ELSE IF HasTask(instructions, rawTask.id) THEN Thrown("Task already exists")
    ELSE Applied([instructions EXCEPT !.tasks = Append(@, rawTask)])

\* const { id: _ignoreId, ...safeUpdates } = updates
SafeUpdates(updates) == [key \in DOMAIN updates \ {"id"} |-> updates[key]]

applyUpdateTask(instructions, taskId, updates) ==
    IF ~HasTask(instructions, taskId) THEN Thrown("Task not found")
    ELSE Applied([instructions EXCEPT !.tasks =
            [k \in 1..Len(@) |->
                IF k = (CHOOSE j \in 1..Len(@) :
                            @[j].id = taskId /\ \A i \in 1..(j - 1) : @[i].id # taskId)
                THEN Spread(@[k], SafeUpdates(updates)) ELSE @[k]]])

applyDeleteTask(instructions, taskId) ==
    IF ~HasTask(instructions, taskId) THEN Thrown("Task not found")
    ELSE Applied([instructions EXCEPT !.tasks = Without(@, taskId)])

TaskScopeTools == {"update_task", "get_task", "check_task_exists"}

executeToolCall(instructions, call, scope, currentTaskId) ==
    IF ~call.valid THEN Thrown("Invalid tool arguments JSON")
    ELSE IF scope = "task" /\ call.name \notin TaskScopeTools
    THEN Thrown("Task scope only supports update_task, get_task, or check_task_exists")
    ELSE IF scope = "task" /\ (~Truthy(call.id) \/ call.id # currentTaskId)
    THEN Thrown("Task scope operations must target the current task id")
    ELSE IF call.name = "add_task"
    THEN IF call.given THEN applyAddTask(instructions, call.fields)
         ELSE IF ~Truthy(call.id) THEN Thrown("add_task requires a task object or name/id")
         ELSE applyAddTask(instructions,
                  [id |-> call.id, type |-> "agent", input |-> Undefined,
                   outcome |-> Undefined])
    ELSE IF call.name = "update_task"
    THEN IF ~Truthy(call.id) \/ ~call.given THEN Thrown("update_task requires id and updates")
         ELSE applyUpdateTask(instructions, call.id, call.fields)
    ELSE IF call.name = "delete_task"
    THEN IF ~Truthy(call.id) THEN Thrown("delete_task requires id")
         ELSE applyDeleteTask(instructions, call.id)
    ELSE IF call.name \in {"get_task", "check_task_exists"}
    THEN IF ~Truthy(call.id) THEN Thrown("get_task requires id") ELSE Applied(instructions)
    ELSE Thrown("Unsupported tool")

RECURSIVE executeToolCalls(_, _, _, _)
executeToolCalls(instructions, calls, scope, currentTaskId) ==
    IF calls = <<>> THEN Applied(instructions)
    ELSE LET first == executeToolCall(instructions, Head(calls), scope, currentTaskId)
         IN  IF first.error # Undefined THEN first
             ELSE executeToolCalls(first.instructions, Tail(calls), scope, currentTaskId)

\* A command as executeCommand meets it: the scope, the selected task, the tool calls
\* the model asks for, and whether the model answers at all ("empty": neither text
\* nor calls; "model": a request to the model throws).
Commands ==
    [scope : {"global"}, current : {Undefined}, calls : EditCallLists,
     fault : {"none", "model"}]
    \cup [scope : {"task"}, current : {"A", "B"}, calls : EditCallLists,
          fault : {"none", "model"}]
    \cup [scope : {"global"}, current : {Undefined}, calls : {<<>>}, fault : {"empty"}]

NoCommand == [scope |-> "none", current |-> Undefined, calls |-> <<>>, fault |-> "none"]

CommandResult(error, hasInstructions, instructions, hasTask, task) ==
    [error |-> error, hasInstructions |-> hasInstructions, instructions |-> instructions,
     hasTask |-> hasTask, task |-> task]

CommandError(msg) == CommandResult(msg, FALSE, StartInstructions, FALSE, NoFields)

NoCommandResult == CommandResult(Undefined, FALSE, StartInstructions, FALSE, NoFields)

executeCommand(instructions, command) ==
    IF command.fault = "empty" THEN CommandError("Empty response from model")
    ELSE LET run == executeToolCalls(instructions, command.calls, command.scope,
                                    command.current)
             updated == run.instructions
             hasChanges == Stringify(updated).tasks # Stringify(instructions).tasks
             found == command.scope = "task" /\ HasTask(updated, command.current)
         IN  IF run.error # Undefined THEN CommandError(run.error)
             ELSE IF command.fault = "model" THEN CommandError("Request failed")
             ELSE CommandResult(Undefined, hasChanges,
                      IF hasChanges THEN updated ELSE StartInstructions,
                      found,
                      IF found
                      THEN updated.tasks[CHOOSE k \in 1..Len(updated.tasks) :
                                            updated.tasks[k].id = command.current]
                      ELSE NoFields)

handleCommandSubmit_partial(st, command, result) ==
    IF result.error # Undefined
    THEN replaceInstructions(st,
             executeToolCalls(st.instructions, Slice(command.calls, 1),
                              command.scope, command.current).instructions)
    ELSE st

\* handleCommandSubmit after executeCommand returned: the queued setState updaters.
handleCommandSubmit(st, command, result) ==
    IF result.error # Undefined THEN st
    ELSE LET replaced == IF result.hasInstructions
                         THEN replaceInstructions(st, result.instructions) ELSE st
         IN  IF result.hasTask /\ command.scope = "task"
             THEN updateTask(replaced, command.current, result.task)
             ELSE replaced

Operation(name, threw, command, result) ==
    [name |-> name, threw |-> threw, command |-> command, result |-> result]

NoOperation == Operation("none", FALSE, NoCommand, NoCommandResult)

EditorIdle ==
    /\ state = createInstructionsState(StartInstructions)
    /\ trail = <<>>
    /\ prior = createInstructionsState(StartInstructions)
    /\ lastOp = NoOperation
    /\ mode = "wide"
    /\ editsLeft = 0

\* ---- the provider connections ----

\* How many connections a run makes at most, and how many top-level tasks it has.
MaxConns == 2
MaxTasks == 2

ServerNames == {"srv", "alt"}

NoConnection == [name |-> Undefined, id |-> 0]

EmptyMap == [name \in {} |-> 0]

\* Map.prototype.set
MapSet(map, key, value) ==
    [name \in DOMAIN map \cup {key} |-> IF name = key THEN value ELSE map[name]]

\* One call of shutdownMcpClients: where it stands, which entries its loops visited,
\* and whether one of its close calls threw.
Resting == [pc |-> "idle", clients |-> {}, transports |-> {}, threw |-> FALSE]

McpIdle ==
    /\ isShuttingDown = FALSE
    /\ clientCache = EmptyMap
    /\ transportCache = EmptyMap
    /\ connecting = NoConnection
    /\ conns = 0
    /\ clientCloses = [id \in 1..MaxConns |-> 0]
    /\ transportCloses = [id \in 1..MaxConns |-> 0]
    /\ teardown = [handler |-> Resting, finally |-> Resting]
    /\ taskFailed = FALSE

EngineInit ==
    /\ tasksById = BuildTasksById
    /\ stack = <<>>
    /\ runIndex = 1
    /\ runState = "running"
    /\ exitCode = 0
    /\ cancelled = FALSE
    /\ menu \in Menus
    /\ fuel = Budget(menu)
    /\ modelOverride = Undefined
    /\ defaultModel = Undefined
    /\ toolModel \in {TOOL_MODEL, Undeclared}
    /\ McpIdle /\ LoaderIdle /\ EditorIdle

\* The run action has not been entered.
EngineIdle ==
    /\ tasksById = BuildTasksById
    /\ stack = <<>>
    /\ runIndex = 1
    /\ runState = "idle"
    /\ exitCode = 0
    /\ cancelled = FALSE
    /\ menu = "wide"
    /\ fuel = 0
    /\ modelOverride = Undefined
    /\ defaultModel = Undefined
    /\ toolModel = TOOL_MODEL
    /\ McpIdle /\ LoaderIdle /\ EditorIdle

\* for (const task of tasks) await runTask(task, taskContext)
RunNextTask ==
    /\ Running /\ stack = <<>> /\ runIndex <= Len(Instructions)
    /\ \E listing \in {"ok", "fail"} :
          stack' = <<NewFrame(Instructions[runIndex], 0, {},
                              [context |-> <<>>, history |-> <<>>], FALSE, listing)>>
    /\ fuel' = Budget(menu)
    /\ UNCHANGED <<tasksById, runIndex, runState, exitCode, cancelled, menu>>
    /\ UNCHANGED <<streamVars, retryVars, modelVars, mcpVars, loaderVars, editorVars>>

\* createAssistantMessage returns the turn's assistant message to runAgentTask.
ModelResponds ==
    /\ Active /\ Top.pc = "model" /\ ~cancelled
    /\ \E m \in Responses(menu, fuel) :
          /\ stack' = SetTop(AfterResponse(Top, m))
          /\ fuel' = IF m.tool_calls # <<>> THEN fuel - 1 ELSE fuel
    /\ UNCHANGED <<tasksById, runIndex, runState, exitCode, cancelled, menu>>
    /\ UNCHANGED <<streamVars, retryVars, modelVars, mcpVars, loaderVars, editorVars>>

\* createAssistantMessage throws: the abort error once the signal has tripped,
\* otherwise an error the retry layers do not absorb.
ModelThrows ==
    /\ Active /\ Top.pc \in {"model", "chat"}
    /\ cancelled \/ MayFail(menu, fuel)
    /\ stack' = SetTop([Top EXCEPT !.pc = "threw", !.calls = @ + 1,
                                   !.thrown = IF cancelled THEN AbortError ELSE NetworkError])
    /\ fuel' = IF cancelled THEN fuel ELSE fuel - 1
    /\ UNCHANGED <<tasksById, runIndex, runState, exitCode, cancelled, menu>>
    /\ UNCHANGED <<streamVars, retryVars, modelVars, mcpVars, loaderVars, editorVars>>

\* runChatTask: the answer is printed and dropped.
ChatResponds ==
    /\ Active /\ Top.pc = "chat" /\ ~cancelled
    /\ stack' = SetTop(Done([Top EXCEPT !.calls = @ + 1], "chat"))
    /\ UNCHANGED <<tasksById, runIndex, runState, exitCode, cancelled, fuel, menu>>
    /\ UNCHANGED <<streamVars, retryVars, modelVars, mcpVars, loaderVars, editorVars>>

\* Mutant: the target is added to the invoker's own chain set, not to a copy.
InvokeTask_shared ==
    /\ Active /\ Top.pc = "tools" /\ Head(Top.pending).name = "invoke_task"
    /\ LET call == Head(Top.pending)
           check == InvokeCheck(call, Top.depth, Top.taskChain, DOMAIN tasksById)
       IN  IF check # "run"
           THEN stack' = SetTop(AfterCall([Top EXCEPT
                                    !.messages = Append(@, ToolMsg(ErrorResult(check)))]))
           ELSE \E listing \in {"ok", "fail"} :
                   stack' = Append(SetTop([Top EXCEPT
                                              !.pc = "awaiting",
                                              !.taskChain = @ \cup {InvokeTarget(call)}]),
                                   NewFrame(taskToRun(call, tasksById[InvokeTarget(call)]),
                                            Top.depth + 1,
                                            Top.taskChain \cup {InvokeTarget(call)},
                                            Top.memory, TRUE, listing))
    /\ UNCHANGED <<tasksById, runIndex, runState, exitCode, cancelled, fuel, menu>>
    /\ UNCHANGED <<streamVars, retryVars, modelVars, mcpVars, loaderVars, editorVars>>

\* The invoke_task branch of the tool loop up to the call of runTask.
InvokeTask ==
    /\ Active /\ Top.pc = "tools" /\ Head(Top.pending).name = "invoke_task"
    /\ LET call == Head(Top.pending)
           check == InvokeCheck(call, Top.depth, Top.taskChain, DOMAIN tasksById)
       IN  IF check # "run"
           THEN stack' = SetTop(AfterCall([Top EXCEPT
                                    !.messages = Append(@, ToolMsg(ErrorResult(check)))]))
           ELSE \E listing \in {"ok", "fail"} :
                   stack' = Append(SetTop([Top EXCEPT !.pc = "awaiting"]),
                                   NewFrame(taskToRun(call, tasksById[InvokeTarget(call)]),
                                            Top.depth + 1,
                                            Top.taskChain \cup {InvokeTarget(call)},
                                            Top.memory, TRUE, listing))
    /\ UNCHANGED <<tasksById, runIndex, runState, exitCode, cancelled, fuel, menu>>
    /\ UNCHANGED <<streamVars, retryVars, modelVars, mcpVars, loaderVars, editorVars>>

\* Mutant: an {error} output is recorded and the loop goes on.
ExecuteTool_lenient ==
    /\ Active /\ Top.pc = "tools" /\ Head(Top.pending).name # "invoke_task"
    /\ LET call == Head(Top.pending)
           same == toolSignature(call) = Top.lastToolSignature
           counted == [Top EXCEPT
                          !.repeatedToolCalls = IF same THEN @ + 1 ELSE 0,
                          !.lastToolSignature = IF same THEN @ ELSE toolSignature(call)]
       IN  IF counted.repeatedToolCalls >= MAX_REPEATED_TOOL_CALLS
           THEN stack' = SetTop(Done(counted, "repeatedTool"))
           ELSE \E result \in executeTool(call, Top.tools, Top.task.mcpServers) :
                   stack' = SetTop(AfterCall([counted EXCEPT
                                                 !.messages = Append(@, ToolMsg(result)),
                                                 !.execs = @ + 1]))
    /\ UNCHANGED <<tasksById, runIndex, runState, exitCode, cancelled, fuel, menu>>
    /\ UNCHANGED <<streamVars, retryVars, modelVars, mcpVars, loaderVars, editorVars>>

\* Any other tool call: the repeated-call guard, executeTool, and the error stop.
ExecuteTool ==
    /\ Active /\ Top.pc = "tools" /\ Head(Top.pending).name # "invoke_task"
    /\ LET call == Head(Top.pending)
           same == toolSignature(call) = Top.lastToolSignature
           counted == [Top EXCEPT
                          !.repeatedToolCalls = IF same THEN @ + 1 ELSE 0,
                          !.lastToolSignature = IF same THEN @ ELSE toolSignature(call)]
       IN  IF counted.repeatedToolCalls >= MAX_REPEATED_TOOL_CALLS
           THEN stack' = SetTop(Done(counted, "repeatedTool"))
           ELSE \E result \in executeTool(call, Top.tools, Top.task.mcpServers) :
                   LET told == [counted EXCEPT !.messages = Append(@, ToolMsg(result)),
                                               !.execs = @ + 1]
                   IN  stack' = SetTop(IF result.error # Undefined
                                       THEN Done(told, "toolError")
                                       ELSE AfterCall(told))
    /\ UNCHANGED <<tasksById, runIndex, runState, exitCode, cancelled, fuel, menu>>
    /\ UNCHANGED <<streamVars, retryVars, modelVars, mcpVars, loaderVars, editorVars>>

\* Mutant: the sub-task ran on the invoking run's Memory object.
InvokeReturns_shared ==
    /\ Active /\ Len(stack) > 1 /\ Top.pc = "returned"
    /\ LET parent == stack[Len(stack) - 1]
           result == [NoResult EXCEPT
                         !.ok = TRUE,
                         !.taskId = Top.task.id,
                         !.lastMessage = IF Top.task.type = "chat" THEN Null
                                         ELSE LastEntryContent(Top.memory.history)]
       IN  stack' = Append(SubSeq(stack, 1, Len(stack) - 2),
                           AfterCall([parent EXCEPT !.messages = Append(@, ToolMsg(result)),
                                                    !.memory = Top.memory]))
    /\ UNCHANGED <<tasksById, runIndex, runState, exitCode, cancelled, fuel, menu>>
    /\ UNCHANGED <<streamVars, retryVars, modelVars, mcpVars, loaderVars, editorVars>>

\* A sub-task's runTask returns to invokeTaskFromAgent, which reports {ok, taskId, lastMessage}.
InvokeReturns ==
    /\ Active /\ Len(stack) > 1 /\ Top.pc = "returned"
    /\ LET parent == stack[Len(stack) - 1]
           result == [NoResult EXCEPT
                         !.ok = TRUE,
                         !.taskId = Top.task.id,
                         !.lastMessage = IF Top.task.type = "chat" THEN Null
                                         ELSE LastEntryContent(Top.memory.history)]
       IN  stack' = Append(SubSeq(stack, 1, Len(stack) - 2),
                           AfterCall([parent EXCEPT !.messages = Append(@, ToolMsg(result))]))
    /\ UNCHANGED <<tasksById, runIndex, runState, exitCode, cancelled, fuel, menu>>
    /\ UNCHANGED <<streamVars, retryVars, modelVars, mcpVars, loaderVars, editorVars>>

\* Mutant: the sub-task's error is thrown on into the invoking run.
InvokeCatches_rethrow ==
    /\ Active /\ Len(stack) > 1 /\ Top.pc = "threw"
    /\ LET parent == stack[Len(stack) - 1]
       IN  stack' = Append(SubSeq(stack, 1, Len(stack) - 2),
                           [parent EXCEPT !.pc = "threw", !.thrown = Top.thrown])
    /\ UNCHANGED <<tasksById, runIndex, runState, exitCode, cancelled, fuel, menu>>
    /\ UNCHANGED <<streamVars, retryVars, modelVars, mcpVars, loaderVars, editorVars>>

\* Mutant: a sub-task's error is swallowed and the invoking call never resumes.
InvokeCatches_hang ==
    /\ Active /\ Len(stack) > 1 /\ Top.pc = "threw"
    /\ stack' = SubSeq(stack, 1, Len(stack) - 1)
    /\ UNCHANGED <<tasksById, runIndex, runState, exitCode, cancelled, fuel, menu>>
    /\ UNCHANGED <<streamVars, retryVars, modelVars, mcpVars, loaderVars, editorVars>>

\* A sub-task's runTask throws into invokeTaskFromAgent's catch, which reports {error}.
InvokeCatches ==
    /\ Active /\ Len(stack) > 1 /\ Top.pc = "threw"
    /\ LET parent == stack[Len(stack) - 1]
           result == [ErrorResult("invoke_task failed") EXCEPT !.cause = Top.thrown.name]
       IN  stack' = Append(SubSeq(stack, 1, Len(stack) - 2),
                           AfterCall([parent EXCEPT !.messages = Append(@, ToolMsg(result))]))
    /\ UNCHANGED <<tasksById, runIndex, runState, exitCode, cancelled, fuel, menu>>
    /\ UNCHANGED <<streamVars, retryVars, modelVars, mcpVars, loaderVars, editorVars>>

\* A top-level runTask returns to the run action's loop.
TaskCompletes ==
    /\ Active /\ Len(stack) = 1 /\ Top.pc = "returned"
    /\ stack' = <<>>
    /\ runIndex' = runIndex + 1
    /\ UNCHANGED <<tasksById, runState, exitCode, cancelled, fuel, menu>>
    /\ UNCHANGED <<streamVars, retryVars, modelVars, mcpVars, loaderVars, editorVars>>

\* A top-level runTask throws: the run action's catch and finally.
TaskFails ==
    /\ Active /\ Len(stack) = 1 /\ Top.pc = "threw"
    /\ stack' = <<>>
    /\ exitCode' = 1
    /\ runState' = "done"
    /\ UNCHANGED <<tasksById, runIndex, cancelled, fuel, menu>>
    /\ UNCHANGED <<streamVars, retryVars, modelVars, mcpVars, loaderVars, editorVars>>

\* The loop over the tasks ends: the run action's finally.
RunFinishes ==
    /\ Running /\ stack = <<>> /\ runIndex > Len(Instructions)
    /\ runState' = "done"
    /\ UNCHANGED <<tasksById, stack, runIndex, exitCode, cancelled, fuel, menu>>
    /\ UNCHANGED <<streamVars, retryVars, modelVars, mcpVars, loaderVars, editorVars>>

\* SIGINT: controller.abort().
Sigint ==
    /\ Running /\ ~cancelled
    /\ cancelled' = TRUE
    /\ UNCHANGED <<tasksById, stack, runIndex, runState, exitCode, fuel, menu>>
    /\ UNCHANGED <<streamVars, retryVars, modelVars, mcpVars, loaderVars, editorVars>>

\* The signal handler of the run action gets to process.exit(): whatever was
\* running is gone.
ProcessExit ==
    /\ Running /\ cancelled
    /\ runState' = "exited"
    /\ exitCode' = 130
    /\ stack' = <<>>
    /\ UNCHANGED <<tasksById, runIndex, cancelled, fuel, menu>>
    /\ UNCHANGED <<streamVars, retryVars, modelVars, mcpVars, loaderVars, editorVars>>

runAgentTask == ModelResponds \/ ModelThrows \/ ExecuteTool

invokeTaskFromAgent == InvokeTask \/ InvokeReturns \/ InvokeCatches

run == RunNextTask \/ ChatResponds \/ TaskCompletes \/ TaskFails \/ RunFinishes

EngineNext == run \/ runAgentTask \/ invokeTaskFromAgent \/ Sigint \/ ProcessExit


(***************************************************************************)
(*                            SPECIFICATIONS                               *)
(***************************************************************************)

StreamSpecInit == StreamInit /\ RetryIdle /\ EngineIdle

StreamNext == consumeStream

SpecStream == StreamSpecInit /\ [][StreamNext]_vars

RetrySpecInit == RetryInit /\ StreamIdle /\ EngineIdle

\* Every request is answered and every backoff timer fires: the turn keeps moving.
SpecRetry == RetrySpecInit /\ [][RetryNext]_vars /\ WF_vars(RetryNext)

EngineSpecInit == EngineInit /\ StreamIdle /\ RetryIdle

Spec == EngineSpecInit /\ [][EngineNext]_vars

\* What the program and the model service do by themselves; a signal may never come.
EngineProgress == run \/ runAgentTask \/ invokeTaskFromAgent \/ ProcessExit

\* The runs whose end is followed: with a model that answers freely and with one that
\* never stops asking for tools.
LiveMenus == {"wide", "loop"}

LiveInit == EngineSpecInit /\ menu \in LiveMenus /\ toolModel = TOOL_MODEL

\* Every model request is answered or fails, every awaited call resumes, and the
\* signal handler gets to its exit: a step the run can take is taken.
SpecLive == LiveInit /\ [][EngineNext]_vars /\ WF_vars(EngineProgress)

\* ---- `tony run -t T` on an instructions file that declares the one task T ----

\* The longest provider allow-list (task.mcpTools) a declared task carries.
MaxAllow == 2

Providers == {"srv", "alt", "gone"}

AllowLists == UNION {[1..n -> Providers] : n \in 0..MaxAllow}

\* task.mcpServers: the providers the task has a config for ("gone" never has one).
ProviderConfigs == {<<>>, <<"srv">>, <<"alt">>, <<"srv", "alt">>}

LocalTools == {Undefined, "fetchFoo", "invoke_task"}

TaskModels == {Undefined, "t"}

ModelOverrides == {Undefined, "M"}

DefaultModels == {Undefined, "D"}

DeclaredTasks ==
    {[AgentTask("T", <<>>, <<>>, "go", Undefined, tool, allow, configs)
         EXCEPT !.model = model] :
        tool \in LocalTools, allow \in AllowLists, configs \in ProviderConfigs,
        model \in TaskModels}
    \cup {[ChatTask("T", "p", "d") EXCEPT !.model = model] : model \in TaskModels}

SetupInit ==
    /\ tasksById \in {[id \in {"T"} |-> task] : task \in DeclaredTasks}
    /\ stack = <<>>
    /\ runIndex = 1
    /\ runState = "running"
    /\ exitCode = 0
    /\ cancelled = FALSE
    /\ menu = "wide"
    /\ fuel = 0
    /\ modelOverride \in ModelOverrides
    /\ defaultModel \in DefaultModels
    /\ toolModel \in {TOOL_MODEL, Undeclared}
    /\ McpIdle /\ LoaderIdle /\ EditorIdle
    /\ StreamIdle /\ RetryIdle

\* filterTasks(instructions, "T") yields [T]; the run action calls runTask on it with
\* a fresh context, which resolves the model, the memory and the tool set.
RunTaskById ==
    /\ Running /\ stack = <<>> /\ runIndex = 1
    /\ \E listing \in {"ok", "fail"} :
          stack' = <<NewFrame(tasksById["T"], 0, {},
                              [context |-> <<>>, history |-> <<>>], FALSE, listing)>>
    /\ runIndex' = 2
    /\ UNCHANGED <<tasksById, runState, exitCode, cancelled, fuel, menu>>
    /\ UNCHANGED <<streamVars, retryVars, modelVars, mcpVars, loaderVars, editorVars>>

SpecSetup == SetupInit /\ [][RunTaskById]_vars

\* ---- `tony run`: loading the instructions file ----

LoaderInit ==
    /\ rawTasks \in RawTaskLists
    /\ loaded = NotLoaded
    /\ tasksById = BuildTasksById
    /\ stack = <<>>
    /\ runIndex = 1
    /\ runState = "idle"
    /\ exitCode = 0
    /\ cancelled = FALSE
    /\ menu = "wide"
    /\ fuel = 0
    /\ modelOverride = Undefined
    /\ defaultModel = Undefined
    /\ toolModel = TOOL_MODEL
    /\ McpIdle /\ EditorIdle
    /\ StreamIdle /\ RetryIdle

\* The run action: loadInstructions, then the tasksById map of the loaded tasks; a
\* file that does not pass is reported and the run ends with exit code 1.
LoadInstructions ==
    /\ runState = "idle" /\ loaded = NotLoaded
    /\ loaded' = parseInstructions(rawTasks)
    /\ IF loaded'.status = "ok"
       THEN /\ tasksById' = MapOfTasks(loaded'.tasks)
            /\ runState' = "running"
            /\ exitCode' = exitCode
       ELSE /\ tasksById' = tasksById
            /\ runState' = "done"
            /\ exitCode' = 1
    /\ UNCHANGED rawTasks
    /\ UNCHANGED <<stack, runIndex, cancelled, fuel, menu>>
    /\ UNCHANGED <<streamVars, retryVars, modelVars, mcpVars, editorVars>>

SpecLoader == LoaderInit /\ [][LoadInstructions]_vars

\* ---- `tony churn`: the editor session (App) ----

\* A session is one of three kinds: "wide" (any reducer operation with any input,
\* MaxEdits of them), "long" (one field edited again and again, past MAX_UNDO), or
\* "command" (a few edits, then one command, then possibly Ctrl+Z).
Modes == {"wide", "long", "command"}

EditsAllowed(kind) ==
    IF kind = "wide" THEN MaxEdits
    ELSE IF kind = "long" THEN MAX_UNDO + LongSlack
    ELSE CommandEdits

EditorInit ==
    /\ mode \in Modes
    /\ editsLeft = EditsAllowed(mode)
    /\ state = createInstructionsState(StartInstructions)
    /\ trail = <<>>
    /\ prior = state
    /\ lastOp = NoOperation
    /\ rawTasks = <<>>
    /\ loaded = NotLoaded
    /\ tasksById = BuildTasksById
    /\ stack = <<>>
    /\ runIndex = 1
    /\ runState = "idle"
    /\ exitCode = 0
    /\ cancelled = FALSE
    /\ menu = "wide"
    /\ fuel = 0
    /\ modelOverride = Undefined
    /\ defaultModel = Undefined
    /\ toolModel = TOOL_MODEL
    /\ McpIdle
    /\ StreamIdle /\ RetryIdle

\* The field edits of the detail view (TaskDetail: the id field renames).
UpdateInputs ==
    IF mode = "wide"
    THEN {"A", "B", "Z"} \X {[id |-> "B"], [model |-> "x"], [model |-> Undefined]}
    ELSE IF mode = "long"
    THEN {<<"A", [model |-> ToString(editsLeft)]>>}
    ELSE {<<"A", [model |-> "x"]>>}

\* setState(next) of one handler; `pushed` are the instructions it put on the undo
\* stack, newest first.
Handled(name, threw, command, result, next, pushed) ==
    /\ state' = next
    /\ prior' = state
    /\ lastOp' = Operation(name, threw, command, result)
    /\ trail' = pushed \o trail
    /\ editsLeft' = IF editsLeft > 0 THEN editsLeft - 1 ELSE 0
    /\ UNCHANGED mode
    /\ UNCHANGED <<tasksById, stack, runIndex, runState, exitCode, cancelled, fuel, menu>>
    /\ UNCHANGED <<streamVars, retryVars, modelVars, mcpVars, loaderVars>>

\* handleTaskUpdate
UpdateTask ==
    /\ editsLeft > 0
    /\ \E input \in UpdateInputs :
          Handled("updateTask", FALSE, NoCommand, NoCommandResult,
                  updateTask(state, input[1], input[2]), <<state.instructions>>)

\* NewTaskPrompt onConfirm: the throw of addTask is caught.
AddTask ==
    /\ editsLeft > 0 /\ mode = "wide"
    /\ \E task \in {EditorTask("A", "agent"), EditorTask("C", "chat")} :
          IF addTaskThrows(state, task)
          THEN Handled("addTask", TRUE, NoCommand, NoCommandResult, state, <<>>)
          ELSE Handled("addTask", FALSE, NoCommand, NoCommandResult,
                       addTask(state, task), <<state.instructions>>)

\* handleDeleteTask
DeleteTask ==
    /\ editsLeft > 0 /\ mode = "wide"
    /\ \E taskId \in {"A", "B"} :
          Handled("deleteTask", FALSE, NoCommand, NoCommandResult,
                  deleteTask(state, taskId), <<state.instructions>>)

ReplaceInstructions ==
    /\ editsLeft > 0 /\ mode = "wide"
    /\ \E next \in {[defaultModel |-> "m", tasks |-> <<EditorTask("C", "chat")>>]} :
          Handled("replaceInstructions", FALSE, NoCommand, NoCommandResult,
                  replaceInstructions(state, next), <<state.instructions>>)

\* Ctrl+Z, or the command `u`.  One more is always possible right after a command.
Undo ==
    /\ \/ editsLeft > 0 /\ (mode = "long" => Len(state.undoStack) >= MAX_UNDO - 1)
       \/ lastOp.name = "command"
    /\ state' = undo(state)
    /\ prior' = state
    /\ lastOp' = Operation("undo", FALSE, NoCommand, NoCommandResult)
    /\ trail' = IF Len(state.undoStack) = 0 THEN trail ELSE Tail(trail)
    /\ editsLeft' = IF editsLeft > 0 THEN editsLeft - 1 ELSE 0
    /\ UNCHANGED mode
    /\ UNCHANGED <<tasksById, stack, runIndex, runState, exitCode, cancelled, fuel, menu>>
    /\ UNCHANGED <<streamVars, retryVars, modelVars, mcpVars, loaderVars>>

\* handleSave: on an mtime conflict or a failed write the state is left alone.
Save ==
    /\ editsLeft > 0 /\ mode # "long"
    /\ \E written \in BOOLEAN :
          Handled("save", ~written, NoCommand, NoCommandResult,
                  IF written THEN markSaved(state) ELSE state, <<>>)

\* handleCommandSubmit with a command for the model.
CommandSubmit ==
    /\ editsLeft > 0 /\ mode = "command"
    /\ \E command \in Commands :
          /\ command.scope = "task" => HasTask(state.instructions, command.current)
          /\ LET result == executeCommand(state.instructions, command)
                 next == handleCommandSubmit(state, command, result)
                 added == Len(next.undoStack) - Len(state.undoStack)
             IN  /\ state' = next
                 /\ trail' = SubSeq(next.undoStack, 1, added) \o trail
                 /\ lastOp' = Operation("command", result.error # Undefined, command, result)
    /\ prior' = state
    /\ editsLeft' = 0
    /\ UNCHANGED mode
    /\ UNCHANGED <<tasksById, stack, runIndex, runState, exitCode, cancelled, fuel, menu>>
    /\ UNCHANGED <<streamVars, retryVars, modelVars, mcpVars, loaderVars>>

EditorNext ==
    \/ UpdateTask
    \/ AddTask
    \/ DeleteTask
    \/ ReplaceInstructions
    \/ Undo
    \/ Save
    \/ CommandSubmit

SpecEditor == EditorInit /\ [][EditorNext]_vars

\* ---- `tony run`: the task loop, the signal handler and the connection teardown ----

\* The run as the connection cache sees it: the tasks of the list run one after the
\* other, each may connect to providers, and each returns or throws.
TeardownInit ==
    /\ tasksById = BuildTasksById
    /\ stack = <<>>
    /\ runIndex = 1
    /\ runState = "running"
    /\ exitCode = 0
    /\ cancelled = FALSE
    /\ menu = "wide"
    /\ fuel = 0
    /\ modelOverride = Undefined
    /\ defaultModel = Undefined
    /\ toolModel = TOOL_MODEL
    /\ McpIdle /\ LoaderIdle /\ EditorIdle
    /\ StreamIdle /\ RetryIdle

TaskInFlight == runState = "running" /\ runIndex <= MaxTasks

\* getClient finds no cached client: connectStdioServer connects and caches the
\* transport; the client is cached after the next await.
Connect ==
    /\ TaskInFlight /\ connecting = NoConnection /\ conns < MaxConns
    /\ \E name \in ServerNames \ DOMAIN clientCache :
          /\ transportCache' = MapSet(transportCache, name, conns + 1)
          /\ connecting' = [name |-> name, id |-> conns + 1]
    /\ conns' = conns + 1
    /\ UNCHANGED <<isShuttingDown, clientCache, clientCloses, transportCloses, teardown,
                   taskFailed>>
    /\ UNCHANGED <<tasksById, stack, runIndex, runState, exitCode, cancelled, fuel, menu>>
    /\ UNCHANGED <<streamVars, retryVars, modelVars, loaderVars, editorVars>>

\* getClient: clientCache.set(key, client)
CacheClient ==
    /\ runState = "running" /\ connecting # NoConnection
    /\ clientCache' = MapSet(clientCache, connecting.name, connecting.id)
    /\ connecting' = NoConnection
    /\ UNCHANGED <<isShuttingDown, transportCache, conns, clientCloses, transportCloses,
                   teardown, taskFailed>>
    /\ UNCHANGED <<tasksById, stack, runIndex, runState, exitCode, cancelled, fuel, menu>>
    /\ UNCHANGED <<streamVars, retryVars, modelVars, loaderVars, editorVars>>

\* await runTask(task, taskContext) returns: the loop moves on.
TaskReturns ==
    /\ TaskInFlight /\ connecting = NoConnection
    /\ runIndex' = runIndex + 1
    /\ UNCHANGED <<tasksById, stack, runState, exitCode, cancelled, fuel, menu>>
    /\ UNCHANGED <<streamVars, retryVars, modelVars, mcpVars, loaderVars, editorVars>>

\* Mutant: the catch does not set the exit code.
TaskThrows_quiet ==
    /\ TaskInFlight /\ connecting = NoConnection
    /\ taskFailed' = TRUE
    /\ runState' = "teardown"
    /\ teardown' = [teardown EXCEPT !.finally.pc = "clients"]
    /\ UNCHANGED <<isShuttingDown, clientCache, transportCache, connecting, conns,
                   clientCloses, transportCloses>>
    /\ UNCHANGED <<tasksById, stack, runIndex, exitCode, cancelled, fuel, menu>>
    /\ UNCHANGED <<streamVars, retryVars, modelVars, loaderVars, editorVars>>

\* await runTask(task, taskContext) throws: the catch reports the failure and sets
\* process.exitCode = 1, the loop is left, and the finally starts the teardown.
TaskThrows ==
    /\ TaskInFlight /\ connecting = NoConnection
    /\ taskFailed' = TRUE
    /\ exitCode' = 1
    /\ runState' = "teardown"
    /\ teardown' = [teardown EXCEPT !.finally.pc = "clients"]
    /\ UNCHANGED <<isShuttingDown, clientCache, transportCache, connecting, conns,
                   clientCloses, transportCloses>>
    /\ UNCHANGED <<tasksById, stack, runIndex, cancelled, fuel, menu>>
    /\ UNCHANGED <<streamVars, retryVars, modelVars, loaderVars, editorVars>>

\* The loop is through the task list: the finally starts the teardown.
LoopEnds ==
    /\ runState = "running" /\ runIndex > MaxTasks
    /\ runState' = "teardown"
    /\ teardown' = [teardown EXCEPT !.finally.pc = "clients"]
    /\ UNCHANGED <<isShuttingDown, clientCache, transportCache, connecting, conns,
                   clientCloses, transportCloses, taskFailed>>
    /\ UNCHANGED <<tasksById, stack, runIndex, exitCode, cancelled, fuel, menu>>
    /\ UNCHANGED <<streamVars, retryVars, modelVars, loaderVars, editorVars>>

\* SIGINT or SIGTERM: the handler sets isShuttingDown and calls shutdownMcpClients;
\* a second signal finds isShuttingDown set and returns.
Signal ==
    /\ runState \in {"running", "teardown"} /\ ~isShuttingDown
    /\ isShuttingDown' = TRUE
    /\ teardown' = [teardown EXCEPT !.handler.pc = "clients"]
    /\ UNCHANGED <<clientCache, transportCache, connecting, conns, clientCloses,
                   transportCloses, taskFailed>>
    /\ UNCHANGED <<tasksById, stack, runIndex, runState, exitCode, cancelled, fuel, menu>>
    /\ UNCHANGED <<streamVars, retryVars, modelVars, loaderVars, editorVars>>

Callers == {"handler", "finally"}

\* The entries of a cache that a loop over it has not visited; a Map iterates in
\* insertion order and sees what is added while it runs.
Unvisited(map, visited) == {map[name] : name \in DOMAIN map} \ visited

Oldest(ids) == CHOOSE id \in ids : \A other \in ids : id <= other

ProcessAlive == runState \in {"running", "teardown", "done"}

\* Mutant: a close that throws ends the call.
CloseClient_abort(who) ==
    /\ ProcessAlive /\ teardown[who].pc = "clients"
    /\ Unvisited(clientCache, teardown[who].clients) # {}
    /\ LET id == Oldest(Unvisited(clientCache, teardown[who].clients))
       IN  /\ clientCloses' = [clientCloses EXCEPT ![id] = @ + 1]
           /\ \E threw \in BOOLEAN :
                 teardown' = [teardown EXCEPT ![who].clients = @ \cup {id},
                                              ![who].threw = @ \/ threw,
                                              ![who].pc = IF threw THEN "complete" ELSE @]
    /\ UNCHANGED <<isShuttingDown, clientCache, transportCache, connecting, conns,
                   transportCloses, taskFailed>>
    /\ UNCHANGED <<tasksById, stack, runIndex, runState, exitCode, cancelled, fuel, menu>>
    /\ UNCHANGED <<streamVars, retryVars, modelVars, loaderVars, editorVars>>

\* shutdownMcpClients, first loop: await client.close() on the next entry; a close
\* that throws is caught and logged, and the loop goes on.
CloseClient(who) ==
    /\ ProcessAlive /\ teardown[who].pc = "clients"
    /\ Unvisited(clientCache, teardown[who].clients) # {}
    /\ LET id == Oldest(Unvisited(clientCache, teardown[who].clients))
       IN  /\ clientCloses' = [clientCloses EXCEPT ![id] = @ + 1]
           /\ \E threw \in BOOLEAN :
                 teardown' = [teardown EXCEPT ![who].clients = @ \cup {id},
                                              ![who].threw = @ \/ threw]
    /\ UNCHANGED <<isShuttingDown, clientCache, transportCache, connecting, conns,
                   transportCloses, taskFailed>>
    /\ UNCHANGED <<tasksById, stack, runIndex, runState, exitCode, cancelled, fuel, menu>>
    /\ UNCHANGED <<streamVars, retryVars, modelVars, loaderVars, editorVars>>

\* shutdownMcpClients, second loop: await transport.close() on the next entry; a
\* close that throws is caught and logged, and the loop goes on.
CloseTransport(who) ==
    /\ ProcessAlive /\ teardown[who].pc \in {"clients", "transports"}
    /\ Unvisited(clientCache, teardown[who].clients) = {}
    /\ Unvisited(transportCache, teardown[who].transports) # {}
    /\ LET id == Oldest(Unvisited(transportCache, teardown[who].transports))
       IN  /\ transportCloses' = [transportCloses EXCEPT ![id] = @ + 1]
           /\ \E threw \in BOOLEAN :
                 teardown' = [teardown EXCEPT ![who].pc = "transports",
                                              ![who].transports = @ \cup {id},
                                              ![who].threw = @ \/ threw]
    /\ UNCHANGED <<isShuttingDown, clientCache, transportCache, connecting, conns,
                   clientCloses, taskFailed>>
    /\ UNCHANGED <<tasksById, stack, runIndex, runState, exitCode, cancelled, fuel, menu>>
    /\ UNCHANGED <<streamVars, retryVars, modelVars, loaderVars, editorVars>>

\* shutdownMcpClients, after the loops: clientCache.clear(); transportCache.clear()
ClearCaches(who) ==
    /\ ProcessAlive /\ teardown[who].pc \in {"clients", "transports"}
    /\ teardown[who].pc = "clients" => Unvisited(clientCache, teardown[who].clients) = {}
    /\ Unvisited(transportCache, teardown[who].transports) = {}
    /\ clientCache' = EmptyMap
    /\ transportCache' = EmptyMap
    /\ teardown' = [teardown EXCEPT ![who].pc = "complete"]
    /\ UNCHANGED <<isShuttingDown, connecting, conns, clientCloses, transportCloses,
                   taskFailed>>
    /\ UNCHANGED <<tasksById, stack, runIndex, runState, exitCode, cancelled, fuel, menu>>
    /\ UNCHANGED <<streamVars, retryVars, modelVars, loaderVars, editorVars>>

shutdownMcpClients ==
    \E who \in Callers : CloseClient(who) \/ CloseTransport(who) \/ ClearCaches(who)

\* The finally of the run action is through: the action returns.
RunReturns ==
    /\ runState = "teardown" /\ teardown.finally.pc = "complete"
    /\ runState' = "done"
    /\ UNCHANGED <<tasksById, stack, runIndex, exitCode, cancelled, fuel, menu>>
    /\ UNCHANGED <<streamVars, retryVars, modelVars, mcpVars, loaderVars, editorVars>>

\* The finally of the signal handler: process.exitCode = 130 (SIGINT) or 1; process.exit()
HandlerExits ==
    /\ ProcessAlive /\ teardown.handler.pc = "complete"
    /\ exitCode' \in {130, 1}
    /\ runState' = "exited"
    /\ UNCHANGED <<tasksById, stack, runIndex, cancelled, fuel, menu>>
    /\ UNCHANGED <<streamVars, retryVars, modelVars, mcpVars, loaderVars, editorVars>>

TeardownNext ==
    \/ Connect \/ CacheClient \/ TaskReturns \/ TaskThrows \/ LoopEnds
    \/ Signal \/ shutdownMcpClients \/ RunReturns \/ HandlerExits

SpecTeardown == TeardownInit /\ [][TeardownNext]_vars

\* ---- claims about the stream accumulator ----

\* The distinct indices carried by the deltas consumed so far.
SeenIndices == {seen[k].index : k \in 1..Len(seen)}

\* The concatenation, in arrival order, of the argument fragments that carried index i.
RECURSIVE FragmentsOf(_, _)
FragmentsOf(deltas, i) ==
    IF deltas = <<>> THEN ""
    ELSE (IF Head(deltas).index = i /\ Head(deltas).arguments # Undefined
          THEN Head(deltas).arguments ELSE "")
         \o FragmentsOf(Tail(deltas), i)

\* The arguments string of a reconstructed entry (an entry that got no fragment reads "").
ArgumentsOf(slot) == IF slot.arguments = Undefined THEN "" ELSE slot.arguments

\* The number of distinct indices below i: the place of index i's entry in a list
\* that has exactly one entry per distinct index.
RankOf(i) == Cardinality({j \in SeenIndices : j < i})

AllIndexed == \A k \in 1..Len(seen) : seen[k].index # NoIndex

\* C1: when every delta carries an index, the reconstructed tool-call list has
\* exactly one entry per distinct index that appeared, none of them empty, and
\* each entry's arguments is the concatenation, in arrival order, of the
\* fragments that carried its index.
C1_OneEntryPerDistinctIndex ==
    (message # NoMessage /\ AllIndexed) =>
        /\ Len(message.tool_calls) = Cardinality(SeenIndices)
        /\ \A k \in 1..Len(message.tool_calls) : message.tool_calls[k] # Hole
        /\ \A i \in SeenIndices :
              /\ RankOf(i) + 1 \in DOMAIN message.tool_calls
              /\ ArgumentsOf(message.tool_calls[RankOf(i) + 1]) = FragmentsOf(seen, i)

\* What the code does guarantee: index i's entry sits at position i of the array,
\* with the fragments of index i concatenated in arrival order; the array is as
\* long as the largest index plus one, and every position whose index never
\* appeared is a hole.
StreamSlotsByIndex ==
    (message # NoMessage /\ AllIndexed) =>
        /\ \A i \in SeenIndices :
              /\ i + 1 \in DOMAIN message.tool_calls
              /\ message.tool_calls[i + 1] # Hole
              /\ ArgumentsOf(message.tool_calls[i + 1]) = FragmentsOf(seen, i)
        /\ \A k \in 1..Len(message.tool_calls) :
              (k - 1 \notin SeenIndices) <=> (message.tool_calls[k] = Hole)
        /\ \A i \in SeenIndices : Len(message.tool_calls) >= i + 1

\* A finished stream whose only deltas skipped index 0.
StreamSkippedIndexReached ==
    /\ message # NoMessage
    /\ AllIndexed
    /\ seen # <<>>
    /\ 0 \notin SeenIndices

\* ---- claims about the retrying transport ----

RetryDone == rpc \in {"returned", "thrown"}

\* C4: a transport that fails with 429/5xx exactly k times, k < MAX_RETRIES, and
\* then succeeds: the call eventually returns the successful result, having made
\* exactly k + 1 transport attempts, and never makes more.
C4_TransientFailuresThenSuccess ==
    \A k \in 0..(MAX_RETRIES - 1) :
        /\ (planned = k) ~> (rpc = "returned" /\ sends = k + 1 /\ thrown = NoError)
        /\ [](planned = k => sends <= k + 1)

C4_Witness == planned = MAX_RETRIES - 1 /\ rpc = "returned" /\ sends = MAX_RETRIES

\* C5 as stated: with transient failures on at least MAX_RETRIES attempts the call
\* raises, after exactly MAX_RETRIES + 1 attempts.
C5_RaisesFromMaxRetriesFailures ==
    (planned >= MAX_RETRIES /\ RetryDone) =>
        (rpc = "thrown" /\ sends = MAX_RETRIES + 1)

\* C5 amended: with transient failures on more than MAX_RETRIES attempts (every
\* one of the first MAX_RETRIES + 1) the call raises that transient error after
\* exactly MAX_RETRIES + 1 attempts; with exactly MAX_RETRIES failures the
\* attempt MAX_RETRIES + 1 succeeds and the call returns.
C5_RaisesPastMaxRetriesFailures ==
    /\ (planned >= MAX_RETRIES + 1 /\ RetryDone) =>
          (rpc = "thrown" /\ sends = MAX_RETRIES + 1 /\ ~NonTransient(thrown))
    /\ (planned >= MAX_RETRIES + 1) => sends <= MAX_RETRIES + 1
    /\ (planned = MAX_RETRIES /\ RetryDone) =>
          (rpc = "returned" /\ sends = MAX_RETRIES + 1)

C5_Witness == planned = MAX_RETRIES + 1 /\ rpc = "thrown" /\ sends = MAX_RETRIES + 1

\* C6: once a request or its stream fails with a non-transient error (no 429/5xx
\* status: another 4xx, no status at all, the abort of the tripped signal),
\* neither retry layer tries again: that error is what createAssistantMessage
\* throws, and no transport attempt follows; when it is the first failure of
\* the turn, exactly one transport attempt was made.
C6_NonTransientNeverRetried ==
    fatal # NoFatal =>
        /\ rpc = "thrown"
        /\ thrown = fatal.error
        /\ totalSends = fatal.sends
        /\ fatal.first => totalSends = 1

C6_Witness ==
    /\ fatal # NoFatal
    /\ fatal.error = AbortError
    /\ fatal.first
    /\ aborted
    /\ rpc = "thrown"
    /\ totalSends = 1

\* ---- claims about the task runner, the agent loop and the invoker ----

Frames == {stack[k] : k \in 1..Len(stack)}

IsAssistant(m) == m.role = "assistant"

\* The assistant messages the model produced for a task run, in order.
Turns(frame) == SelectSeq(SubSeq(frame.messages, frame.base + 1, Len(frame.messages)), IsAssistant)

\* The error results the task run has been handed as tool messages.
ToolErrors(frame) ==
    {frame.messages[j].result.error :
        j \in {i \in 1..Len(frame.messages) : frame.messages[i].role = "tool"}}

\* The step is the invoke_task branch handling a well-formed call whose target is t.
InvokeStep(t) ==
    /\ Active /\ Top.pc = "tools" /\ Head(Top.pending).name = "invoke_task"
    /\ JsonParse(Head(Top.pending).arguments).valid
    /\ InvokeTarget(Head(Top.pending)) = t
    /\ runState' = "running" /\ stack' # stack

\* The step hands the invoking task run an {error} tool result and runs nothing.
RejectedWith(msg) ==
    /\ Len(stack') = Len(stack)
    /\ stack'[Len(stack)].task = Top.task
    /\ stack'[Len(stack)].messages = Append(Top.messages, ToolMsg(ErrorResult(msg)))

\* C2: an invoke_task whose target is the running task or any task of the active call
\* chain (below the depth limit) is answered with an {error} result and the target is
\* not run; no task id is ever active twice on one call path.
C2_CycleRejected ==
    /\ [](\A j, k \in 1..Len(stack) : stack[j].task.id = stack[k].task.id => j = k)
    /\ [][\A t \in TaskIds :
            (InvokeStep(t) /\ Top.depth < MAX_TASK_CHAIN_DEPTH
                /\ \E k \in 1..Len(stack) : stack[k].task.id = t)
            => RejectedWith("Cycle detected")]_vars

\* A nested task run was refused a task of its call chain.
C2_Witness ==
    \E k \in 1..Len(stack) :
        /\ k >= 2
        /\ "Cycle detected" \in ToolErrors(stack[k])
        /\ stack[k].taskChain = {stack[j].task.id : j \in 1..k}

\* C3: invoke_task issued from a task running at depth MAX_TASK_CHAIN_DEPTH is answered
\* with the depth error and the target is not run; no task runs deeper than that.
C3_DepthLimit ==
    /\ [](\A k \in 1..Len(stack) : stack[k].depth = k - 1 /\ k - 1 <= MAX_TASK_CHAIN_DEPTH)
    /\ [][\A t \in Targets :
            (InvokeStep(t) /\ Top.depth = MAX_TASK_CHAIN_DEPTH)
            => RejectedWith("Max task chain depth reached")]_vars

\* Three nested invocations ran and the fourth attempt was refused.
C3_Witness ==
    /\ Len(stack) = MAX_TASK_CHAIN_DEPTH + 1
    /\ Top.depth = MAX_TASK_CHAIN_DEPTH
    /\ "Max task chain depth reached" \in ToolErrors(Top)

\* The task run was handed an abort as the {error} result of an invoke_task.
AbortSwallowed(frame) ==
    \E j \in 1..Len(frame.messages) :
        /\ frame.messages[j].role = "tool"
        /\ frame.messages[j].result.cause = AbortError.name

\* C7: an abort raised inside a sub-task is never turned into a tool result after
\* which the invoking agent loop goes on to another model request.
C7_AbortNotTurnedIntoToolResult ==
    \A frame \in Frames : AbortSwallowed(frame) => frame.pc # "model"

\* C8: once two consecutive turns that both request tool calls carry the same content,
\* the loop is over: those are the last turns and no further model request is issued.
C8_StopsOnSecondIdenticalTurn ==
    \A frame \in Frames :
        \A k \in 1..(Len(Turns(frame)) - 1) :
            (/\ Turns(frame)[k].content # Null
             /\ Turns(frame)[k].content = Turns(frame)[k + 1].content
             /\ Turns(frame)[k].calls # <<>>
             /\ Turns(frame)[k + 1].calls # <<>>)
            => (Len(Turns(frame)) = k + 1 /\ frame.pc # "model")

\* The history's last role, as the claims read it.
LastRole(history) == IF history = <<>> THEN "none" ELSE history[Len(history)].role

\* The task run got as far as the seed step.
Prepared(frame) ==
    frame.task.type = "agent" /\ frame.thrown \notin {McpError, ReferenceError}

NothingDone(frame) ==
    /\ frame.pc = "returned" /\ frame.reason = "nothingToDo"
    /\ frame.calls = 0 /\ frame.execs = 0
    /\ frame.memory = frame.start

\* The history starts with what the task run began with, then the seed input as a user entry.
Seeded(frame) ==
    /\ Len(frame.memory.history) > Len(frame.start.history)
    /\ SubSeq(frame.memory.history, 1, Len(frame.start.history) + 1)
          = Append(frame.start.history, Entry("user", frame.task.input))
    /\ frame.messages[frame.base] = Msg("user", frame.task.input)

\* C9 as stated: without a seed input and without a closing user entry the run returns
\* at once, nothing called, memory unchanged; with any declared seed input, that input
\* is appended as a user entry before the first model call.
C9_SeedTurn ==
    \A frame \in Frames :
        (Prepared(frame) /\ LastRole(frame.start.history) # "user")
        => IF frame.task.input = Undefined THEN NothingDone(frame) ELSE Seeded(frame)

\* C9, amended: an empty seed input counts as no seed input.
C9_SeedTurnNonEmpty ==
    \A frame \in Frames :
        (Prepared(frame) /\ LastRole(frame.start.history) # "user")
        => IF frame.task.input \in {Undefined, ""} THEN NothingDone(frame) ELSE Seeded(frame)

\* A seeded task run waits for its first answer, and another returned with nothing to do.
C9_Witness ==
    /\ \E frame \in Frames :
          /\ LastRole(frame.start.history) # "user" /\ frame.task.input = Undefined
          /\ NothingDone(frame)
    /\ \E frame \in Frames :
          /\ LastRole(frame.start.history) # "user" /\ Truthy(frame.task.input)
          /\ Seeded(frame)

\* The end-to-end case: context [c], no history, a seed input, no tools, and a first
\* answer with content and without tool calls.
EndToEndCase(frame) ==
    /\ frame.task.type = "agent"
    /\ frame.start = [context |-> <<"c">>, history |-> <<>>]
    /\ frame.task.input \notin {Undefined, ""}
    /\ frame.task.tool = Undefined /\ frame.task.mcpTools = <<>>
    /\ Turns(frame) # <<>>
    /\ Turns(frame)[1].content # Null
    /\ Turns(frame)[1].calls = <<>>

\* C10: in the end-to-end case the run has made exactly one model call, has returned
\* in its first iteration without an error, and its history is the seed input followed
\* by the answer.
C10_EndToEnd ==
    \A frame \in Frames :
        EndToEndCase(frame)
        => /\ frame.pc = "returned" /\ frame.thrown = NoError
           /\ frame.calls = 1 /\ frame.i = 0 /\ frame.execs = 0
           /\ frame.memory.history
                = <<Entry("user", frame.task.input),
                    Entry("assistant", Turns(frame)[1].content)>>
           /\ LastEntryContent(frame.memory.history) = Turns(frame)[1].content

C10_Witness ==
    \E frame \in Frames : EndToEndCase(frame) /\ frame.reason = "complete"

\* C11: a run of runAgentTask issues at most MAX_AGENT_ITERATIONS model requests; once
\* that many turns have been answered and no other stop fired, the run has returned its
\* memory with the max-iterations outcome and has thrown nothing.
C11_MaxIterations ==
    \A frame \in Frames :
        /\ frame.calls <= MAX_AGENT_ITERATIONS
        /\ Len(Turns(frame)) <= MAX_AGENT_ITERATIONS
        /\ Len(Turns(frame)) = MAX_AGENT_ITERATIONS
              => /\ frame.pc \in {"tools", "awaiting", "returned"}
                 /\ frame.thrown = NoError
                 /\ frame.pc = "returned"
                       => frame.reason \in {"maxIterations", "repeated", "lowValue",
                                            "complete", "repeatedTool", "toolError"}
        /\ frame.reason = "maxIterations"
              => /\ frame.pc = "returned" /\ frame.thrown = NoError
                 /\ Len(Turns(frame)) = MAX_AGENT_ITERATIONS

\* A run was ended by the iteration limit.
C11_Witness ==
    \E frame \in Frames :
        /\ frame.reason = "maxIterations"
        /\ frame.calls = MAX_AGENT_ITERATIONS

HasContent(m) == m.content \notin {Null, Undefined, ""}

\* One assistant entry per model turn that carried content, in the order of the turns.
Produced(frame) ==
    LET said == SelectSeq(Turns(frame), HasContent)
    IN  [k \in 1..Len(said) |-> Entry("assistant", said[k].content)]

\* C12: at every moment of an agent run, and so at its return whatever stopped it, the
\* memory is what the run started with, the seed turn if one was added, and then one
\* assistant entry for every turn with content, in production order.
C12_ContentKept ==
    \A frame \in Frames :
        frame.task.type = "agent"
        => \/ frame.memory.history = frame.start.history \o Produced(frame)
           \/ frame.memory.history
                = Append(frame.start.history, Entry("user", frame.task.input))
                  \o Produced(frame)

\* The repetition guard stopped a run whose three turns all carried content.
C12_Witness ==
    \E frame \in Frames :
        /\ frame.pc = "returned" /\ frame.reason = "repeated"
        /\ Len(Produced(frame)) = 3
        /\ Turns(frame)[3].calls # <<>>

\* The {error} outputs of executeTool for arguments that do not parse and for a tool
\* that is not in the task's tool set.
ArgumentErrors == {"Invalid JSON arguments for tool", "Unknown tool name"}

\* Every {error} output a tool other than invoke_task can produce.
ExternalErrors ==
    ArgumentErrors \cup {"MCP tool call failed", "MCP server not configured", "Unhandled tool"}

\* C13: a tool call with unparsable arguments or an unknown tool name is answered with
\* an {error} tool message and does not end the agent loop.
C13_ArgumentErrorsNotFatal ==
    \A frame \in Frames :
        \A j \in 1..Len(frame.messages) :
            (frame.messages[j].role = "tool"
                /\ frame.messages[j].result.error \in ArgumentErrors)
            => ~(frame.pc = "returned" /\ frame.reason = "toolError")

\* C14: an {error} output of a tool other than invoke_task is recorded as the tool
\* message and ends the run at once, so it is the last message and nothing is pending;
\* the tool-error stop never follows an {error} result of invoke_task.
C14_ToolErrorStops ==
    \A frame \in Frames :
        /\ \A j \in 1..Len(frame.messages) :
              (frame.messages[j].role = "tool"
                  /\ frame.messages[j].result.error \in ExternalErrors)
              => /\ j = Len(frame.messages)
                 /\ frame.pc = "returned" /\ frame.reason = "toolError"
                 /\ frame.pending = <<>>
        /\ frame.reason = "toolError"
              => /\ frame.messages[Len(frame.messages)].role = "tool"
                 /\ frame.messages[Len(frame.messages)].result.error \in ExternalErrors
        /\ \A j \in 1..Len(frame.messages) :
              (frame.messages[j].role = "tool"
                  /\ frame.messages[j].result.error \notin ExternalErrors \cup {Undefined}
                  /\ j = Len(frame.messages))
              => \/ frame.pc \in {"tools", "model", "threw"}
                 \/ frame.pc = "returned" /\ frame.reason \in {"maxIterations", "repeatedTool"}

\* The first of several tool calls of a turn failed and ended the run.
C14_Witness ==
    \E frame \in Frames :
        /\ frame.reason = "toolError" /\ frame.execs = 1
        /\ Len(Turns(frame)[Len(Turns(frame))].calls) >= 2

\* The precondition of invoke_task that a call fails first, as the specification lists
\* them, or "none".
Refusal(call, frame) ==
    LET args == JsonParse(call.arguments)
        target == IF args.taskId # Undefined THEN args.taskId ELSE args.id
    IN  IF ~args.valid THEN "Invalid JSON arguments for tool invoke_task"
        ELSE IF target \in {Undefined, Null, ""} THEN "invoke_task requires taskId"
        ELSE IF frame.depth >= MAX_TASK_CHAIN_DEPTH THEN "Max task chain depth reached"
        ELSE IF \E k \in 1..Len(stack) : stack[k].task.id = target THEN "Cycle detected"
        ELSE IF target \notin TaskIds THEN "Task not found"
        ELSE "none"

\* The invoking run `after` is the run `before` with the tool result added, still
\* going: on to its next tool call or its next turn, or out of turns.
ContinuesWith(after, before, result) ==
    /\ after.task = before.task
    /\ after.messages = Append(before.messages, ToolMsg(result))
    /\ after.thrown = NoError
    /\ \/ after.pc \in {"tools", "model"}
       \/ after.pc = "returned" /\ after.reason = "maxIterations"

C16_ParentMemoryFirst ==
    \A k \in 2..Len(stack) :
        LET own == tasksById[stack[k].task.id].memory
            parent == stack[k - 1].memory
        IN  /\ stack[k].start.context = parent.context \o own.context
            /\ stack[k].start.history = parent.history \o own.history

\* The content of the last entry of a history, null when there is none.
FinalContent(history) ==
    IF Len(history) = 0 THEN Null ELSE history[Len(history)].content

\* C17: when a sub-task run returns, agent or chat, the invoking run is handed
\* {ok: true, taskId, lastMessage} with lastMessage the content of the last entry of
\* the sub-task's memory.
C17_LastMessageIsFinalEntry ==
    [][(/\ Active /\ Len(stack) > 1 /\ Top.pc = "returned"
        /\ runState' = "running" /\ stack' # stack)
       => LET after == stack'[Len(stack) - 1]
          IN  after.messages[Len(after.messages)].result
                = [NoResult EXCEPT !.ok = TRUE,
                                   !.taskId = Top.task.id,
                                   !.lastMessage = FinalContent(Top.memory.history)]]_vars

\* ---- claims about the tool set and the model of a task ----

\* What the task's local tool and its allow-listed, configured providers offer, in order.
RECURSIVE OfferedBy(_, _)
OfferedBy(allow, configs) ==
    IF allow = <<>> THEN <<>>
    ELSE (IF \E k \in 1..Len(configs) : configs[k] = Head(allow)
          THEN [k \in 1..Len(McpCatalog(Head(allow))) |->
                    ToolDef(McpCatalog(Head(allow))[k], Head(allow))]
          ELSE <<>>)
         \o OfferedBy(Tail(allow), configs)

Offered(task) ==
    (IF Truthy(task.tool) THEN <<ToolDef(task.tool, Undefined)>> ELSE <<>>)
    \o OfferedBy(task.mcpTools, task.mcpServers)

\* The entries of seq from position k on whose name no earlier entry carries.
RECURSIVE FirstOfEachName(_, _)
FirstOfEachName(seq, k) ==
    IF k > Len(seq) THEN <<>>
    ELSE (IF \E j \in 1..(k - 1) : seq[j].name = seq[k].name THEN <<>> ELSE <<seq[k]>>)
         \o FirstOfEachName(seq, k + 1)

Exposed(task) ==
    LET kept == FirstOfEachName(Offered(task), 1)
    IN  IF \E k \in 1..Len(kept) : kept[k].name = "invoke_task" THEN kept
        ELSE Append(kept, ToolDef("invoke_task", Undefined))

\* C18: the tool set of an agent task is its local tool, then the tools of each
\* allow-listed provider that has a config, the first of each name kept, plus the
\* built-in invoke_task unless that name is there; the names are pairwise distinct and
\* invoke_task is always among them.
C18_ToolSet ==
    \A frame \in Frames :
        Prepared(frame) =>
            LET defs == toolDefinitions(frame.tools)
            IN  /\ defs = Exposed(frame.task)
                /\ \A j, k \in 1..Len(defs) : defs[j].name = defs[k].name => j = k
                /\ \E k \in 1..Len(defs) : defs[k].name = "invoke_task"

\* A task whose local tool is also listed by its first provider and whose second
\* provider lists a tool named invoke_task has been set up.
C18_Witness ==
    \E frame \in Frames :
        /\ Prepared(frame)
        /\ frame.task.tool = "fetchFoo"
        /\ frame.task.mcpTools = <<"srv", "alt">>
        /\ frame.task.mcpServers = <<"srv", "alt">>
        /\ toolDefinitions(frame.tools)
             = <<ToolDef("fetchFoo", Undefined), ToolDef("search", "srv"),
                 ToolDef("invoke_task", "alt")>>

\* The task declares tool usage: a local tool or a non-empty provider allow-list.
DeclaresToolUsage(task) ==
    task.type = "agent" /\ (task.tool # Undefined \/ task.mcpTools # <<>>)

\* The run got as far as choosing the model of this task's requests.
ModelChosen(frame) == frame.thrown # ReferenceError

\* The run-level default: the -m value, else the default of the instructions file.
RunLevelDefault == IF modelOverride # Undefined THEN modelOverride ELSE defaultModel

C20_OverrideForAllTasks ==
    \A frame \in Frames :
        (modelOverride # Undefined /\ ~DeclaresToolUsage(frame.task))
            => frame.model = modelOverride

\* ---- claims about the order of the invoke_task checks ----

\* C30: of the checks of a well-formed invoke_task the depth limit comes first, the
\* call chain second and the existence of the target last: the error handed back is
\* that of the first of the three that fails.
C30_CheckOrder ==
    [][\A t \in Targets :
          InvokeStep(t) =>
              LET tooDeep == Top.depth >= MAX_TASK_CHAIN_DEPTH
                  inChain == t \in Top.taskChain
                  missing == t \notin DOMAIN tasksById
              IN  /\ tooDeep => RejectedWith("Max task chain depth reached")
                  /\ (~tooDeep /\ inChain) => RejectedWith("Cycle detected")
                  /\ (~tooDeep /\ ~inChain /\ missing) => RejectedWith("Task not found")]_vars

\* The run `frame` asked for target t and was answered with the error msg.
AnsweredWith(frame, t, msg) ==
    \E j \in 1..(Len(frame.messages) - 1) :
        /\ frame.messages[j].role = "assistant"
        /\ Len(frame.messages[j].calls) = 1
        /\ frame.messages[j].calls[1].name = "invoke_task"
        /\ InvokeTarget(frame.messages[j].calls[1]) = t
        /\ frame.messages[j + 1] = ToolMsg(ErrorResult(msg))

\* At the depth limit a task run named a task that does not exist and was told
\* that the depth limit is reached.
C30_Witness ==
    /\ Active /\ Top.depth = MAX_TASK_CHAIN_DEPTH
    /\ "zz" \notin DOMAIN tasksById
    /\ AnsweredWith(Top, "zz", "Max task chain depth reached")

\* At the depth limit a task run named a task of its own call chain.
C30_ChainAtLimit ==
    /\ Active /\ Top.depth = MAX_TASK_CHAIN_DEPTH
    /\ \E t \in Top.taskChain : AnsweredWith(Top, t, "Max task chain depth reached")

\* ---- claims about the end of a run ----

\* The process has ended: process.exit() ran, or the run action returned with no
\* signal handler at work.
ProcessOver ==
    \/ runState = "exited"
    \/ runState = "done" /\ teardown.handler.pc = "idle"

NeverClosedTwice ==
    \A id \in 1..conns : clientCloses[id] <= 1 /\ transportCloses[id] <= 1

NoneLeftOpen ==
    ProcessOver =>
        \A id \in 1..conns :
            connecting.id # id => clientCloses[id] = 1 /\ transportCloses[id] = 1

\* C21: in every run, with or without a signal, close is called at most once on each
\* client and each transport, and when the process ends it has been called on each
\* cached connection.
C21_ClosedExactlyOnce == NeverClosedTwice /\ NoneLeftOpen

\* C23: a top-level task that throws makes the run action set the failing exit code
\* and leave the loop for the teardown; the exit code stays a failing one, and the
\* run action does not return before its teardown is through.
C23_FailureReported ==
    /\ [][(TaskInFlight /\ taskFailed')
            => /\ exitCode' = 1
               /\ runState' = "teardown"
               /\ teardown'.finally.pc = "clients"]_vars
    /\ [](taskFailed => exitCode # 0)
    /\ [](runState = "done" => teardown.finally.pc = "complete")

\* A task threw, the run action closed the connection the run had made, cleared the
\* caches and returned with exit code 1.
C23_Witness ==
    /\ taskFailed /\ runState = "done" /\ exitCode = 1
    /\ conns = 1 /\ clientCloses[1] = 1 /\ transportCloses[1] = 1
    /\ clientCache = EmptyMap

\* ---- claims about the loader ----

\* C22: a task list the loader accepts has pairwise distinct ids, and the tasksById
\* map made of it holds every loaded task under its id.
C22_LoadedIdsDistinct ==
    loaded.status = "ok" =>
        /\ \A i, j \in 1..Len(loaded.tasks) :
              loaded.tasks[i].id = loaded.tasks[j].id => i = j
        /\ \A i \in 1..Len(loaded.tasks) :
              /\ loaded.tasks[i].id \in DOMAIN tasksById
              /\ tasksById[loaded.tasks[i].id] = loaded.tasks[i]

\* ---- claims about the editor ----

Mutations == {"updateTask", "addTask", "deleteTask", "replaceInstructions"}

\* The last operation was a reducer mutation that succeeded.
Mutated(op) == op.name \in Mutations /\ ~op.threw

\* The first n of the prior states not yet undone, newest first.
NewestFirst(n) == [k \in 1..n |-> trail[k]]

\* C24: after any sequence of updateTask/addTask/deleteTask/replaceInstructions/undo
\* the undo stack never holds more than 50 entries, and what it holds are the most
\* recent prior states, newest first (the 50 most recent when it is full): a mutation
\* puts the state it replaced on top and drops the oldest entry of a full stack.
C24_UndoStackCapped ==
    /\ [](/\ Len(state.undoStack) <= MAX_UNDO
          /\ Len(state.undoStack) <= Len(trail)
          /\ state.undoStack = NewestFirst(Len(state.undoStack)))
    /\ [][Mutated(lastOp') =>
            /\ Len(state'.undoStack) =
                   IF Len(state.undoStack) < MAX_UNDO THEN Len(state.undoStack) + 1
                   ELSE MAX_UNDO
            /\ Head(state'.undoStack) = state.instructions]_vars

C24_Witness ==
    /\ mode = "long"
    /\ Mutated(lastOp)
    /\ Len(trail) > MAX_UNDO
    /\ Len(state.undoStack) = MAX_UNDO
    /\ Len(prior.undoStack) = MAX_UNDO
\* The serialization as the reducer's callers see it: JSON text leaves out the keys
\* whose value is undefined.
Serialised(instructions) ==
    [defaultModel |-> instructions.defaultModel,
     tasks |-> [k \in 1..Len(instructions.tasks) |->
                  [key \in {f \in DOMAIN instructions.tasks[k] :
                               instructions.tasks[k][f] # Undefined}
                      |-> instructions.tasks[k][key]]]]

\* C25: in every reachable InstructionsState dirty is true iff the serialization of
\* the current instructions differs from savedSnapshot; an undo that returns to the
\* saved snapshot clears dirty and an undo past a save point sets it.
C25_DirtyTracksSnapshot ==
    /\ [](state.dirty <=> (Serialised(state.instructions) # state.savedSnapshot))
    /\ [][lastOp'.name = "undo" =>
            /\ (Len(state.undoStack) > 0
                 /\ Serialised(Head(state.undoStack)) = state.savedSnapshot)
                    => ~state'.dirty
            /\ (Len(state.undoStack) > 0
                 /\ Serialised(Head(state.undoStack)) # state.savedSnapshot)
                    => state'.dirty]_vars

\* An undo returned a dirty state to the saved snapshot.
C25_Witness ==
    /\ lastOp.name = "undo"
    /\ prior.dirty /\ ~state.dirty
    /\ Len(prior.undoStack) > 0

\* An undo went past a save point: the state was saved after an edit, and now holds
\* the instructions from before that edit.
C25_PastSavePoint ==
    /\ lastOp.name = "undo"
    /\ ~prior.dirty /\ state.dirty
    /\ state.savedSnapshot # Serialised(StartInstructions)

\* An edit that leaves the serialization as it was (a field set to undefined).
C25_SameText ==
    /\ Mutated(lastOp)
    /\ state.instructions # prior.instructions
    /\ Serialised(state.instructions) = Serialised(prior.instructions)
    /\ ~state.dirty
\* C26: an undo right after a mutation that succeeded on a state s gives back the
\* instructions of s, and the undo stack of s when that held fewer than 50 entries;
\* an undo on a state with an empty undo stack returns the state unchanged.
C26_UndoInvertsMutation ==
    [][lastOp'.name = "undo" =>
        /\ Mutated(lastOp) =>
              /\ state'.instructions = prior.instructions
              /\ Len(prior.undoStack) < MAX_UNDO => state'.undoStack = prior.undoStack
        /\ Len(state.undoStack) = 0 => state' = state]_vars

\* The second operation of a session was an undo, and it took back the first, a
\* mutation that changed the instructions.
C26_Witness ==
    /\ mode = "wide" /\ editsLeft = MaxEdits - 2
    /\ lastOp.name = "undo"
    /\ Len(prior.undoStack) = 1
    /\ prior.instructions # StartInstructions
    /\ state.instructions = StartInstructions
    /\ state.undoStack = <<>>

\* An undo right after a mutation on a full stack: the instructions come back, the
\* oldest entry of the stack does not.
C26_FullStack ==
    /\ mode = "long"
    /\ lastOp.name = "undo"
    /\ Len(prior.undoStack) = MAX_UNDO
    /\ Len(trail) >= MAX_UNDO
    /\ Len(state.undoStack) = MAX_UNDO - 1

\* An undo with nothing to take back.
C26_EmptyStack ==
    /\ lastOp.name = "undo"
    /\ prior.undoStack = <<>>
    /\ state = prior
DistinctIds(instructions) ==
    \A i, j \in 1..Len(instructions.tasks) :
        instructions.tasks[i].id = instructions.tasks[j].id => i = j

\* The session used only addTask, updateTask, deleteTask and undo so far.
OnlyTaskEdits ==
    /\ mode = "wide"
    /\ lastOp.name \in {"none", "addTask", "updateTask", "deleteTask", "undo"}
    /\ DistinctIds(prior.instructions)

\* C27: from a task list with pairwise distinct ids, after any sequence of addTask,
\* updateTask, deleteTask and undo the ids are still pairwise distinct (a rename to
\* an id in use is refused), and a rejected addTask throws and leaves the state
\* unchanged.
C27_IdsStayDistinct ==
    OnlyTaskEdits =>
        /\ DistinctIds(state.instructions)
        /\ (lastOp.name = "addTask" /\ lastOp.threw) => state = prior

\* addTask with an id in use was rejected and the state is as it was.
C27_AddRejected ==
    /\ lastOp.name = "addTask" /\ lastOp.threw
    /\ state = prior
\* The last operation was a command that succeeded and changed the instructions.
CommandApplied ==
    /\ lastOp.name = "command"
    /\ ~lastOp.threw
    /\ lastOp.result.hasInstructions

\* C28: each successful command-mode application, in global scope and in task
\* scope, pushes exactly one entry onto the undo stack, and one undo directly
\* afterwards restores the instructions as they were before the command.
C28_CommandIsOneUndoStep ==
    CommandApplied =>
        /\ Len(state.undoStack) = Len(prior.undoStack) + 1
        /\ Head(state.undoStack) = prior.instructions

\* In global scope a command that changed the instructions is one undo step.
C28_GlobalScope ==
    /\ CommandApplied
    /\ lastOp.command.scope = "global"
    /\ Len(state.undoStack) = Len(prior.undoStack) + 1
    /\ Head(state.undoStack) = prior.instructions
    /\ state.instructions # prior.instructions
\* A tool call that cannot succeed in the sessions modelled: its arguments do not
\* parse, the tool is unsupported or not one of the task scope, it targets another
\* task than the current one, it names a task that never exists ("Z"), or it adds a
\* task under an id that is always taken ("A").
DoomedCall(call, command) ==
    \/ ~call.valid
    \/ call.name = "rename_task"
    \/ command.scope = "task" /\ call.name \notin {"update_task", "get_task"}
    \/ command.scope = "task" /\ call.id # command.current
    \/ call.id = "Z"
    \/ call.name = "add_task" /\ call.given /\ call.fields.id = "A"

\* The command fails at some point: a doomed tool call, or the model fails.
CommandFails(command) ==
    \/ command.fault # "none"
    \/ \E k \in 1..Len(command.calls) : DoomedCall(command.calls[k], command)

\* C29: a command that fails at any point (invalid tool arguments, an unsupported or
\* out-of-scope tool, an unknown or duplicate task id, a model error) makes
\* executeCommand return an error with no instructions, and the editor keeps the
\* previous instructions and undo stack: the edits of its earlier tool calls are not
\* applied.
C29_FailedCommandChangesNothing ==
    lastOp.name = "command" =>
        /\ CommandFails(lastOp.command) => lastOp.result.error # Undefined
        /\ lastOp.result.error # Undefined =>
              /\ ~lastOp.result.hasInstructions
              /\ ~lastOp.result.hasTask
              /\ state = prior

\* A command whose first tool call added a task and whose second failed: the editor
\* state is as before and the added task is not in it.
C29_Witness ==
    /\ lastOp.name = "command"
    /\ lastOp.result.error # Undefined
    /\ Len(lastOp.command.calls) = 2
    /\ lastOp.command.calls[1].name = "add_task"
    /\ ~DoomedCall(lastOp.command.calls[1], lastOp.command)
    /\ DoomedCall(lastOp.command.calls[2], lastOp.command)
    /\ state = prior
    /\ \A k \in 1..Len(state.instructions.tasks) :
          state.instructions.tasks[k].id # "C"

\* A command failed because the model did, after a tool call that had succeeded.
C29_ModelError ==
    /\ lastOp.name = "command"
    /\ lastOp.command.fault = "model"
    /\ Len(lastOp.command.calls) = 1
    /\ ~DoomedCall(lastOp.command.calls[1], lastOp.command)
    /\ lastOp.result.error = "Request failed"
    /\ state = prior
\* ---- claims about the chain, the guards and the memory of nested runs ----

\* The ids of the runs in progress, from the outermost down to position k.
IdsDownTo(k) == {stack[j].task.id : j \in 1..k}

\* The frames that are on the stack before and after a step.
Kept == {k \in 1..Len(stack) : k <= Len(stack')}

\* C31: a nested invoke_task runs its target at the invoker's depth + 1 with the
\* invoker's chain plus the target id; the invoker's own depth and chain stay as they
\* are during and after the nested run; in every running task the chain has
\* depth + 1 members.
C31_ChainPerCallPath ==
    /\ [](\A k \in 1..Len(stack) :
            /\ stack[k].depth = k - 1
            /\ stack[k].taskChain = IdsDownTo(k)
            /\ Cardinality(stack[k].taskChain) = stack[k].depth + 1)
    /\ [][\A k \in Kept :
            /\ stack'[k].depth = stack[k].depth
            /\ stack'[k].taskChain = stack[k].taskChain]_vars

\* A task invokes a target again after that target's first run returned to it.
C31_Witness ==
    /\ Len(stack) = 2
    /\ Top.task.id = "B"
    /\ Top.taskChain = {stack[1].task.id, "B"}
    /\ \E k \in 1..Len(stack[1].messages) :
          /\ stack[1].messages[k].result.ok
          /\ stack[1].messages[k].result.taskId = "B"

\* Sibling invocations: after a run of B returned, the same task runs C on a chain
\* that does not hold B.
C31_Siblings ==
    /\ Len(stack) = 2
    /\ Top.task.id = "C"
    /\ "B" \notin Top.taskChain
    /\ \E k \in 1..Len(stack[1].messages) :
          /\ stack[1].messages[k].result.ok
          /\ stack[1].messages[k].result.taskId = "B"
RECURSIVE CallsIn(_)
CallsIn(messages) ==
    IF messages = <<>> THEN <<>> ELSE Head(messages).calls \o CallsIn(Tail(messages))

\* The tool calls the model requested of this run, in order, up to and including
\* the one the tool loop is at.
RequestedSoFar(frame) ==
    LET all == CallsIn(frame.messages)
    IN  SubSeq(all, 1, Len(all) - (Len(frame.pending) - 1))

SameCall(a, b) == a.name = b.name /\ a.arguments = b.arguments

\* The step is the tool loop of the running task stopping at the repeated-tool guard.
GuardFires ==
    /\ Active /\ Top.pc = "tools"
    /\ Len(stack') = Len(stack)
    /\ stack'[Len(stack')].pc = "returned"
    /\ stack'[Len(stack')].reason = "repeatedTool"

\* C32: the repeated-tool guard stops the loop at a tool call only when that call and
\* the two requested tool calls right before it have the same (name, arguments); a
\* call whose immediately preceding requested call differs from it (an invoke_task
\* requested in between, say) never triggers the guard; the call at which the guard
\* fires is not executed.
C32_RepeatedToolGuard ==
    [][GuardFires =>
        LET seq == RequestedSoFar(Top)
            n == Len(seq)
        IN  /\ n >= 3
            /\ SameCall(seq[n - 1], seq[n])
            /\ SameCall(seq[n - 2], seq[n - 1])
            /\ stack'[Len(stack')].execs = Top.execs
            /\ stack'[Len(stack')].messages = Top.messages]_vars

\* The guard fired at the third of three identical calls in a row.
C32_ThreeInARow ==
    /\ Active /\ Top.pc = "returned" /\ Top.reason = "repeatedTool"
    /\ LET seq == CallsIn(Top.messages)
       IN  /\ Len(seq) = 3
           /\ SameCall(seq[1], seq[2]) /\ SameCall(seq[2], seq[3])
           /\ Top.execs = 2
\* ---- claims about the stream retries of a model turn ----

IsDefect(error) == error.name = "StreamIteratorBug"

\* C33: createAssistantMessage retries the stream-iterator defect at most
\* MAX_STREAM_RETRIES times per model turn and throws it on its third occurrence;
\* any other error that reaches it is thrown on its first occurrence (a transport
\* that only fails with transient statuses is never retried by this layer, and the
\* first non-transient failure is what the turn throws); one model turn makes at
\* most (MAX_STREAM_RETRIES + 1) * (MAX_RETRIES + 1) transport attempts.
C33_StreamRetriesBounded ==
    /\ [](streamAttempt <= MAX_STREAM_RETRIES)
    /\ [](totalSends <= (MAX_STREAM_RETRIES + 1) * (MAX_RETRIES + 1))
    /\ []((planned # Unplanned) => streamAttempt = 0)
    /\ []((planned # Unplanned /\ rpc = "thrown") => totalSends = MAX_RETRIES + 1)
    /\ []((fatal # NoFatal) => (rpc = "thrown" /\ thrown = fatal.error))
    /\ [][(rpc # "thrown" /\ rpc' = "thrown" /\ IsDefect(thrown'))
            => streamAttempt = MAX_STREAM_RETRIES]_vars

\* The defect occurred three times in one turn and the third was thrown.
C33_Witness ==
    /\ rpc = "thrown"
    /\ IsDefect(thrown)
    /\ streamAttempt = MAX_STREAM_RETRIES
    /\ totalSends >= MAX_STREAM_RETRIES + 1

\* A turn that made the most transport attempts a turn can make.
C33_MostAttempts ==
    totalSends = (MAX_STREAM_RETRIES + 1) * (MAX_RETRIES + 1)
\* ---- claims about the teardown and the cache of provider connections ----

\* The connections a cache holds.
Cached(map) == {map[name] : name \in DOMAIN map}

\* The step completes the caller's call of shutdownMcpClients.
Completes(who) == teardown[who].pc # "complete" /\ teardown'[who].pc = "complete"

\* The caller's call ran alone: the other caller never started one.
RanAlone(who) == \A other \in {"handler", "finally"} \ {who} : teardown[other].pc = "idle"

C34_SecondCallIdle ==
    /\ teardown.finally.pc = "complete"
    /\ teardown.handler.pc = "complete"
    /\ teardown.finally.clients # {}
    /\ teardown.handler.clients = {} /\ teardown.handler.transports = {}
    /\ \A id \in 1..conns : clientCloses[id] = 1 /\ transportCloses[id] = 1

\* C35: every name in the client cache is also in the transport cache (a connection
\* is cached as a transport first and as a client next, and the two caches are
\* cleared together).
C35_ClientNamesInTransportCache == DOMAIN clientCache \subseteq DOMAIN transportCache

\* ---- claims about the memory of a task run ----

\* Sequence a is the beginning of sequence b.
PrefixOf(a, b) == Len(a) <= Len(b) /\ SubSeq(b, 1, Len(a)) = a

\* The roles of the entries a history holds beyond its first n.
RolesAfter(history, n) == [j \in 1..(Len(history) - n) |-> history[n + j].role]

\* Only assistant entries, after at most one user entry that comes first.
SeedThenAssistant(roles) ==
    \A j \in 1..Len(roles) : roles[j] = "assistant" \/ (j = 1 /\ roles[j] = "user")

\* C36: during an agent run the memory changes by appends only: across every step the
\* history a run had is the beginning of the history it has, and what was added are
\* assistant entries; the context stays what the run was created with; beyond the
\* history the run was created with there is at most one user entry, the seed turn,
\* which comes first, and assistant entries.
C36_MemoryAppendOnly ==
    /\ [][\A k \in Kept :
            /\ stack'[k].memory.context = stack[k].memory.context
            /\ PrefixOf(stack[k].memory.history, stack'[k].memory.history)
            /\ \A role \in {RolesAfter(stack'[k].memory.history,
                                       Len(stack[k].memory.history))[j] :
                            j \in 1..(Len(stack'[k].memory.history)
                                      - Len(stack[k].memory.history))} :
                  role = "assistant"]_vars
    /\ [](\A k \in 1..Len(stack) :
            /\ stack[k].memory.context = stack[k].task.memory.context
            /\ PrefixOf(stack[k].task.memory.history, stack[k].memory.history)
            /\ SeedThenAssistant(RolesAfter(stack[k].memory.history,
                                            Len(stack[k].task.memory.history))))

\* A run of task C, created with one assistant entry, holds the seed turn and two
\* answers of the model after it.
C36_Witness ==
    \E k \in 1..Len(stack) :
        /\ stack[k].task.id = "C"
        /\ stack[k].task.memory.history # <<>>
        /\ RolesAfter(stack[k].memory.history, Len(stack[k].task.memory.history))
              = <<"user", "assistant", "assistant">>

\* ---- claims about the first request of an agent run ----

\* The memory as messages: the context as system messages, then the history.
Rendered(memory) ==
    [k \in 1..(Len(memory.context) + Len(memory.history)) |->
        IF k <= Len(memory.context)
        THEN Msg("system", memory.context[k])
        ELSE Msg(memory.history[k - Len(memory.context)].role,
                 memory.history[k - Len(memory.context)].content)]

\* The memory at the first model call: what the run began with and the seed turn, if
\* one was appended.
AtFirstCall(frame) ==
    LET n == Len(frame.start.history)
        seeded == Len(frame.memory.history) > n /\ frame.memory.history[n + 1].role = "user"
    IN  [context |-> frame.memory.context,
         history |-> SubSeq(frame.memory.history, 1, IF seeded THEN n + 1 ELSE n)]

\* The desired-outcome note of a task that declares a non-blank outcome.
NoteOf(task) ==
    IF task.outcome \notin {Undefined, Null, "", " "}
    THEN <<Msg("system", "Desired outcome: " \o task.outcome)>>
    ELSE <<>>

\* The run got as far as its first model call.
Called(frame) == Prepared(frame) /\ frame.reason # "nothingToDo"

\* C37: the message list of the first model call of an agent run is the context as
\* system messages, then the whole history of the memory, the seed turn included, then
\* the desired-outcome note of a task that declares one.
C37_OutcomeNoteAfterHistory ==
    \A frame \in Frames :
        Called(frame) =>
            SubSeq(frame.messages, 1, frame.base) = Rendered(AtFirstCall(frame)) \o NoteOf(frame.task)

\* ---- claims about what a sub-task run shares with its invoker ----

\* The declaration of a task in the instructions file.
Declared(id) == Instructions[CHOOSE k \in 1..Len(Instructions) : Instructions[k].id = id]

\* C38: a sub-task run never changes the memory of the run that invoked it, which is
\* the same after the tool call as before; no step changes a declaration in tasksById,
\* which holds the instructions as declared; so every run starts from the declared
\* memory of its task: a top-level run from just that, a sub-task run from that and
\* the memory of its invoker.
C38_SubTaskLeavesInvokerAlone ==
    /\ [][\A k \in Kept :
            stack[k].pc = "awaiting" => stack'[k].memory = stack[k].memory]_vars
    /\ [][tasksById' = tasksById]_vars
    /\ [](\A id \in DOMAIN tasksById : tasksById[id] = Declared(id))
    /\ [](\A k \in 1..Len(stack) :
            LET own == Declared(stack[k].task.id).memory
            IN  IF k = 1
                THEN stack[k].start = own
                ELSE /\ stack[k].start.context = own.context \o stack[k - 1].memory.context
                     /\ stack[k].start.history = own.history \o stack[k - 1].memory.history)

\* Task A is back from a run of B that it invoked with an input override and that
\* appended to its own memory; A's memory holds its seed turn and its one answer.
C38_Witness ==
    /\ Len(stack) = 1 /\ stack[1].task.id = "A"
    /\ Len(stack[1].memory.history) = 2
    /\ \E j \in 1..Len(stack[1].messages) :
          /\ stack[1].messages[j].result.ok
          /\ stack[1].messages[j].result.taskId = "B"
          /\ stack[1].messages[j].result.lastMessage \notin {Null, Undefined, "go", "u"}
          /\ j > 1 /\ stack[1].messages[j - 1].calls
                        = <<ToolCall("invoke_task", TaskIdInputArgs("B", "o"))>>

\* ---- claims about the input override of invoke_task ----

\* The input the invoke_task call in progress of the run at position k passes on.
OverrideAt(k) == JsonParse(Head(stack[k].pending).arguments).input

IsUser(m) == m.role = "user"

\* The user messages of the first request of a run, in order.
FirstUserMessages(frame) == SelectSeq(SubSeq(frame.messages, 1, frame.base), IsUser)

\* C39: when invoke_task runs an agent task with a non-empty input override, the
\* override is appended to the sub-task's memory as a user turn and is the last user
\* message of the sub-task's first model request.
C39_OverrideDelivered ==
    \A k \in 2..Len(stack) :
        (/\ stack[k].task.type = "agent" /\ Called(stack[k])
         /\ OverrideAt(k - 1) \notin {Undefined, Null, ""})
        => /\ Len(stack[k].memory.history) > Len(stack[k].start.history)
           /\ stack[k].memory.history[Len(stack[k].start.history) + 1]
                 = Entry("user", OverrideAt(k - 1))
           /\ FirstUserMessages(stack[k]) # <<>>
           /\ FirstUserMessages(stack[k])[Len(FirstUserMessages(stack[k]))]
                 = Msg("user", OverrideAt(k - 1))

\* ---- claims about termination ----

\* The run action is over: its loop is through or left, or the process has exited.
RunOver == runState \in {"done", "exited"}

C40_SubTaskFailed ==
    /\ Len(stack) = 1
    /\ \E j \in 1..Len(stack[1].messages) :
          stack[1].messages[j].result.error = "invoke_task failed"

\* A run has returned after all the model requests it may make.
C40_AllTurns ==
    /\ Len(stack) = 1 /\ stack[1].pc = "returned"
    /\ stack[1].calls = MAX_AGENT_ITERATIONS
====
